---- MODULE Spec2Model ----
(***************************************************************************)
(* Enhanced play-by-play engine of pbpstats: the rebound predecessor probe *)
(* (StatsRebound.missed_shot), the rebound order repair of the online      *)
(* loader and of the offline processor, the shot-clock annotator, the      *)
(* enrichment pass (_add_extra_attrs_to_all_events), the technical-foul    *)
(* reorder of the stats loader, the CDN load path of the web loader and    *)
(* its action-type adapter, the two FreeThrow.is_made implementations,     *)
(* the aggregation of event stats over possessions, and nba_stats_parser   *)
(* (lineups, possession-ending events, possessions, possession start       *)
(* types).                                                                 *)
(*                                                                         *)
(* Rows are the raw stats.nba.com rows (EVENTNUM, EVENTMSGTYPE, ...).      *)
(* Sequences are 1-based here; the Python code is 0-based.                 *)
(* Times are held in hundredths of a second (integers) in the shot-clock   *)
(* part and in whole seconds in the enrichment pass.                       *)
(***************************************************************************)
EXTENDS Integers, Sequences, FiniteSets, TLC

VARIABLES
    \* --- probe of StatsRebound.missed_shot on a linked item list
    pItems,      \* the item list the probe runs on
    pIdx,        \* index of the probed rebound, 0 before the probe
    pRes,        \* "unprobed" | "resolved" | "EventOrderError"
    pLink,       \* index of the event missed_shot resolved to, 0 if none
    \* --- rebound order repair (loader / offline processor)
    mode,        \* "loader" | "proc" | "idle"
    rows,        \* self.data / source_data rowSet
    rows0,       \* the rows as given to the run (history)
    pc,          \* "loop" | "v3" | "done"
    attempts,    \* the attempts counter of the retry loop
    fixCalls,    \* number of calls of the pattern-fix routine (history)
    outcome,     \* "running" | "returned" | name of the raised exception
    oracle,      \* playbyplayv3 action numbers in actionId order (<<>>: unavailable)
    strict,      \* REBOUND_STRICT_MODE
    logOn,       \* whether a rebound_deletions_list was supplied
    dlog,        \* the repair log: deleted_EVENTNUM of each record
    deleted,     \* EVENTNUMs of the rows the fallback deleted (history)
    lastFix,     \* what the last call of the fix routine did, and on which rows
    \* --- shot-clock annotator
    scEvents,    \* the linked events handed to annotate_shot_clock
    scShort,     \* cfg.short_reset (hundredths)
    scDone,      \* whether annotate_shot_clock has run
    scBefore,    \* per event: the decayed state at the start of the event
    scClock,     \* per event: the stored shot_clock (hundredths)
    scAfter,     \* per event: the state after the post-event rule
    \* --- NbaEnhancedPbpLoader._add_extra_attrs_to_all_events
    atItems,     \* self.items
    atOutcome,   \* "idle" | "ready" | "done" | "IndexError"
    atPrev,      \* per event: index of previous_event (0: None)
    atNext,      \* per event: index of next_event (0: None)
    atFouls,     \* per event: event.fouls_to_give
    atScore,     \* per event: event.score
    \* --- nba_stats_parser.parse_game_data
    psEvents,    \* the events built from the rows
    psOutcome,   \* "idle" | "ready" | "done"
    psTracked,   \* per event: the _current_players snapshot
    psRead,      \* per event: what the current_players property returns
    psEnding,    \* per event: is_possession_ending_event
    psPoss,      \* the possessions, each the indices of its events
    \* --- StatsNbaEnhancedPbpLoader._fix_order_when_technical_foul_before_period_start
    tfRows,      \* source_data["resultSets"][0]["rowSet"] on entry
    tfOutcome,   \* "idle" | "ready" | "unchanged" | "reordered"
    tfOut,       \* the rowSet on return
    tfSaved,     \* _save_data_to_file was called
    \* --- StatsNbaPbpWebLoader._load_from_cdn
    cdnActions,   \* game["actions"] as fetched
    cdnOutcome,   \* "idle" | "ready" | "done"
    cdnIncluded,  \* after the _include_cdn_action filter
    cdnCoalesced, \* after _coalesce_substitution_pairs
    cdnSorted,    \* after actions.sort(key=_action_sort_key)
    cdnDeduped,   \* after _dedupe_actions
    cdnRows,      \* the rows kept for the payload
    \* --- cdn_adapter.map_eventmsgactiontype
    adAction,    \* the action of the last call
    adEvtType,   \* the evt_type argument of the last call (-1: None)
    adResult,    \* what the last call returned (-1: None)
    adWarned,    \* the last call logged a warning
    adSeen,      \* _seen_unknown
    adCalls,     \* number of calls made
    \* --- FreeThrow.is_made (nba_stats_parser) and StatsFreeThrow.is_made
    ftEvents,      \* the free throw and, if any, the event after it
    ftOutcome,     \* "idle" | "ready" | "done"
    ftParserMade,  \* models.FreeThrow.is_made
    ftStatsMade,   \* StatsFreeThrow.is_made
    \* --- Possessions._aggregate_event_stats
    agItems,     \* self.items: the possessions, each the list of its events
    agArgs,      \* the key fields passed as *args
    agOutcome,   \* "idle" | "ready" | "done"
    agResult,    \* the list returned
    agWarnings,  \* number of warnings logged
    \* --- Possession.possession_start_type
    stPrevEvents,  \* previous_possession.events
    stNumber,      \* self.number
    stTimeout,     \* possession_has_timeout or previous_possession_has_timeout
    stOutcome,     \* "idle" | "ready" | "done"
    stStartType,   \* the string returned, as its parts
    \* --- one call of a fix routine
    fbMode,      \* "proc": PbpProcessor, "loader": the stats_nba loader
    fbRows,      \* the rows before the call
    fbEvent,     \* the EVENTNUM the exception names
    fbStrict,    \* REBOUND_STRICT_MODE
    fbOutcome,   \* "idle" | "ready" | "done"
    fbResult,    \* rows, error, log and deletions after the call
    \* --- one call of _use_stats_nba_v3_event_order
    v3Rows,      \* the rowSet before the call
    v3Oracle,    \* playbyplayv3 action numbers in actionId order (<<>>: none)
    v3Outcome,   \* "idle" | "ready" | "done"
    v3Out,       \* the rowSet after the call
    \* --- the loop of _add_extra_attrs_to_all_events, item by item, with the
    \*     dictionaries as objects
    cpItems,     \* self.items
    cpPos,       \* number of items the loop has finished
    cpOutcome,   \* "idle" | "running" | "done" | "IndexError"
    cpHeap,      \* the dictionaries alive, by object number
    cpAcc,       \* the objects the names fouls_to_give, player_game_fouls, score are bound to
    cpAttached,  \* per item: the objects attached to it
    cpSeen,      \* per item: the contents of its objects when they were attached
    \* --- one call of StatsStartOfPeriod._get_period_starters_from_boxscore_loader
    bxLoader,    \* "none": no boxscore_source_loader | "raises" | "ok"
    bxPeriod,    \* self.period
    bxPlayers,   \* the player items of the boxscore
    bxOutcome,   \* "idle" | "ready" | "done"
    bxResult,    \* what the call returned
    \* --- a free throw of the CDN feed, normalized and read by StatsFreeThrow
    tpAction,    \* the action of the feed
    tpOutcome,   \* "idle" | "ready" | "done"
    tpCode,      \* EVENTMSGACTIONTYPE of the row built from it
    tpClasses    \* the trip positions StatsFreeThrow reports for that row

probeVars  == <<pItems, pIdx, pRes, pLink>>
repairVars == <<mode, rows, rows0, pc, attempts, fixCalls, outcome, oracle,
                strict, logOn, dlog, deleted, lastFix>>
scVars     == <<scEvents, scShort, scDone, scBefore, scClock, scAfter>>
attrVars   == <<atItems, atOutcome, atPrev, atNext, atFouls, atScore>>
parserVars == <<psEvents, psOutcome, psTracked, psRead, psEnding, psPoss>>
techVars   == <<tfRows, tfOutcome, tfOut, tfSaved>>
cdnVars    == <<cdnActions, cdnOutcome, cdnIncluded, cdnCoalesced, cdnSorted,
                cdnDeduped, cdnRows>>
adapterVars == <<adAction, adEvtType, adResult, adWarned, adSeen, adCalls>>
ftVars     == <<ftEvents, ftOutcome, ftParserMade, ftStatsMade>>
aggVars    == <<agItems, agArgs, agOutcome, agResult, agWarnings>>
startVars  == <<stPrevEvents, stNumber, stTimeout, stOutcome, stStartType>>
fallbackVars == <<fbMode, fbRows, fbEvent, fbStrict, fbOutcome, fbResult>>
v3Vars     == <<v3Rows, v3Oracle, v3Outcome, v3Out>>
copyVars   == <<cpItems, cpPos, cpOutcome, cpHeap, cpAcc, cpAttached, cpSeen>>
boxVars    == <<bxLoader, bxPeriod, bxPlayers, bxOutcome, bxResult>>
tripVars   == <<tpAction, tpOutcome, tpCode, tpClasses>>
vars       == <<probeVars, repairVars, scVars, attrVars, parserVars, techVars, cdnVars, adapterVars, ftVars, aggVars, startVars, fallbackVars, v3Vars, copyVars, boxVars, tripVars>>

(***************************************************************************)
(* Rows and event classes                                                  *)
(***************************************************************************)

\* A raw row.  type = EVENTMSGTYPE, num = EVENTNUM, per = PERIOD,
\* clk = PCTIMESTRING, pid = PLAYER1_ID, team = team id of the event,
\* desc = what the description says of a shot ("miss": contains "MISS ",
\* "pts": contains " PTS)", "": neither), final = last free throw of its
\* trip or technical, scv = is_shot_clock_violation of a turnover.
Row(type, pid, team, desc, final, scv) ==
    [type |-> type, num |-> 0, per |-> 1, clk |-> 0, pid |-> pid,
     team |-> team, desc |-> desc, final |-> final, scv |-> scv]

\* PLAYER1_ID at or above this value is a team id, not a player id
TeamIdBase == 1610000000

IsFieldGoal(r)    == r.type \in {1, 2}
IsFreeThrow(r)    == r.type = 3
IsRebound(r)      == r.type = 4
IsTurnover(r)     == r.type = 5
IsSubstitution(r) == r.type = 8
IsTimeout(r)      == r.type = 9
IsJumpBall(r)     == r.type = 10
IsStartOfPeriod(r) == r.type = 12

\* previous_event of items[i] as linked by _add_extra_attrs_to_all_events
\* (0 stands for None)
PrevIdx(items, i) ==
    IF i = 1 \/ IsStartOfPeriod(items[i]) THEN 0 ELSE i - 1

\* next_event of items[i] as linked by _add_extra_attrs_to_all_events
\* (0 stands for None).  A StartOfPeriod in last position of a longer list
\* makes the linking pass index past the list; Linkable excludes it.
NextIdx(items, i) ==
    IF i = Len(items) THEN 0
    ELSE IF i = 1 \/ IsStartOfPeriod(items[i]) THEN i + 1
    ELSE IF items[i].per /= items[i + 1].per THEN 0
    ELSE i + 1

Linkable(items) ==
    Len(items) > 1 => ~IsStartOfPeriod(items[Len(items)])

\* StatsFreeThrow.is_made
FreeThrowIsMade(items, i) ==
    LET ft == items[i]
        n  == NextIdx(items, i)
    IN  IF ft.desc = "miss" THEN FALSE
        ELSE IF ft.desc = "pts" THEN TRUE
        ELSE IF /\ ft.final
                /\ n /= 0
                /\ items[n].type = 4
                /\ items[n].team /= 0
                /\ ft.team /= 0
                /\ items[n].team /= ft.team
             THEN FALSE
        ELSE TRUE

\* is_made of a FieldGoal or FreeThrow item
IsMade(items, i) ==
    IF IsFieldGoal(items[i]) THEN items[i].type = 1
    ELSE FreeThrowIsMade(items, i)

\* the walk of missed_shot over Substitution/Timeout items behind a JumpBall
RECURSIVE SkipSubsTimeouts(_, _)
SkipSubsTimeouts(items, q) ==
    IF q /= 0 /\ (IsSubstitution(items[q]) \/ IsTimeout(items[q]))
    THEN SkipSubsTimeouts(items, PrevIdx(items, q))
    ELSE q

\* StatsRebound.missed_shot: index of the item it resolves to, 0 when it
\* raises EventOrderError
missed_shot(items, i) ==
    LET p == PrevIdx(items, i)
    IN  IF p /= 0 /\ (IsFieldGoal(items[p]) \/ IsFreeThrow(items[p]))
        THEN IF ~IsMade(items, p) THEN p ELSE 0
        ELSE IF p /= 0 /\ IsTurnover(items[p]) /\ items[p].scv
        THEN \* the inner test asks whether the Turnover is a FieldGoal
             IF IsFieldGoal(items[p]) THEN PrevIdx(items, p) ELSE 0
        ELSE IF p /= 0 /\ IsJumpBall(items[p])
        THEN LET q == SkipSubsTimeouts(items, PrevIdx(items, p))
             IN  IF q /= 0 /\ (IsFieldGoal(items[q]) \/ IsFreeThrow(items[q]))
                 THEN q ELSE 0
        ELSE 0

(***************************************************************************)
(* Probe specification: missed_shot applied to bounded item lists          *)
(***************************************************************************)

MaxProbeLen == 3

ProbeKinds ==
    { Row(1, 201, 1, "", FALSE, FALSE),       \* made field goal
      Row(2, 201, 1, "", FALSE, FALSE),       \* missed field goal
      Row(3, 201, 1, "miss", TRUE, FALSE),    \* missed free throw
      Row(3, 201, 1, "pts", TRUE, FALSE),     \* made free throw
      Row(3, 201, 1, "", TRUE, FALSE),        \* final free throw, ambiguous text
      Row(4, 202, 1, "", FALSE, FALSE),       \* rebound, shooting team
      Row(4, 203, 2, "", FALSE, FALSE),       \* rebound, other team
      Row(5, 201, 1, "", FALSE, TRUE),        \* shot-clock-violation turnover
      Row(5, 201, 1, "", FALSE, FALSE),       \* other turnover
      Row(6, 203, 2, "", FALSE, FALSE),       \* foul
      Row(8, 201, 1, "", FALSE, FALSE),       \* substitution
      Row(9, 0, 1, "", FALSE, FALSE),         \* timeout
      Row(10, 201, 1, "", FALSE, FALSE),      \* jump ball
      Row(12, 0, 0, "", FALSE, FALSE) }       \* start of period

ProbeInputs ==
    { s \in UNION { [1..n -> ProbeKinds] : n \in 1..MaxProbeLen } : Linkable(s) }

ProbeIdle ==
    /\ pItems = <<>>
    /\ pIdx = 0
    /\ pRes = "unprobed"
    /\ pLink = 0

\* the probe: event.missed_shot on one rebound of the list
Probe ==
    /\ pIdx = 0
    /\ \E i \in 1..Len(pItems) :
          /\ IsRebound(pItems[i])
          /\ pIdx' = i
          /\ pLink' = missed_shot(pItems, i)
          /\ pRes' = IF missed_shot(pItems, i) = 0 THEN "EventOrderError"
                     ELSE "resolved"
    /\ UNCHANGED pItems

(***************************************************************************)
(* Rebound order repair: shared helpers                                    *)
(***************************************************************************)

\* mutant: the two rows stay where they are
SwapAt_NoSwap(s, i, j) == s

MaxOf(S) == CHOOSE x \in S : \A y \in S : y <= x
MinOf(S) == CHOOSE x \in S : \A y \in S : x <= y

SwapAt(s, i, j) == [s EXCEPT ![i] = s[j], ![j] = s[i]]
RemoveAt(s, i)  == SubSeq(s, 1, i - 1) \o SubSeq(s, i + 1, Len(s))
InsertAt(s, i, x) == SubSeq(s, 1, i - 1) \o <<x>> \o SubSeq(s, i, Len(s))

\* rows[k] for a Python index that may be -1: position 0 here is the last row
WrapIdx(rs, k) == IF k >= 1 THEN k ELSE Len(rs) + k

\* PLAYER1_ID of 0 or of a team id marks a team/placeholder rebound
IsTeamPid(pid) == pid = 0 \/ pid >= TeamIdBase

\* the items of a row list whose missed_shot raises
BadRebounds(rs) ==
    { i \in 1..Len(rs) : IsRebound(rs[i]) /\ missed_shot(rs, i) = 0 }

\* mutant: the probe loop reports every rebound as out of order
ProbeFailsOnAnyRebound(rs) ==
    LET S == { i \in 1..Len(rs) : IsRebound(rs[i]) }
    IN  IF S = {} THEN 0 ELSE MinOf(S)

\* the probe loop over self.items: index of the first rebound whose
\* missed_shot raises EventOrderError, 0 when every rebound resolves
ProbeFails(rs) ==
    IF BadRebounds(rs) = {} THEN 0 ELSE MinOf(BadRebounds(rs))

\* the EventNum the raised EventOrderError carries: that of the rebound's
\* previous event; 0 when the previous event is None (no EventNum in the text)
IssueEventNum(rs, bad) ==
    IF PrevIdx(rs, bad) = 0 THEN 0 ELSE rs[PrevIdx(rs, bad)].num

\* mutant: the row is put back right before rows[ii]
MoveBeforeIssue(rs, j, ii) ==
    SubSeq(rs, 1, j - 1) \o SubSeq(rs, j + 1, ii - 1) \o <<rs[j]>>
        \o SubSeq(rs, ii, Len(rs))

\* row list with rows[j] taken out and put back right after rows[ii] (j < ii)
MoveAfter(rs, j, ii) ==
    SubSeq(rs, 1, j - 1) \o SubSeq(rs, j + 1, ii) \o <<rs[j]>>
        \o SubSeq(rs, ii + 1, Len(rs))

\* the nearest row at or before ii that is no Substitution/Timeout, 0 if none
LastNonSubUpTo(rs, ii) ==
    LET S == { j \in 1..ii : rs[j].type \notin {8, 9} }
    IN  IF S = {} THEN 0 ELSE MaxOf(S)

(***************************************************************************)
(* StatsNbaEnhancedPbpLoader._fix_common_event_order_error                 *)
(***************************************************************************)

\* the last row whose EVENTNUM matches (the search loop does not break)
IssueIndexLast(rs, e) ==
    LET S == { i \in 1..Len(rs) : rs[i].num = e }
    IN  IF S = {} THEN 0 ELSE MaxOf(S)

\* duplicate adjacent rebounds: delete the team one, else the later one
LoaderDuplicateRebound(rs, ii) ==
    LET firstTeam  == IsTeamPid(rs[ii].pid)
        secondTeam == IsTeamPid(rs[ii + 1].pid)
    IN  IF firstTeam /\ ~secondTeam THEN RemoveAt(rs, ii)
        ELSE RemoveAt(rs, ii + 1)

\* number of rows the same-clock scan looks at, the reported row included
LoaderScanSpan == 5

\* rebound stamped at the clock of a later shot/FT: index of that shot, 0 if none
LoaderScanTarget(rs, ii) ==
    LET hi   == IF ii - 1 + LoaderScanSpan < Len(rs)
                THEN ii - 1 + LoaderScanSpan ELSE Len(rs)
        stop == { j \in (ii + 1)..hi :
                    rs[j].per /= rs[ii].per \/ rs[j].clk /= rs[ii].clk }
        lim  == IF stop = {} THEN hi ELSE MinOf(stop) - 1
        hits == { j \in (ii + 1)..lim : rs[j].type \in {2, 3} }
    IN  IF hits = {} THEN 0 ELSE MinOf(hits)

\* the part of the routine that runs when none of the five patterns applied
LoaderNotHandled(rs, ii) ==
    IF ii + 1 <= Len(rs) /\ rs[ii].type = 4 /\ rs[ii + 1].type = 4
    THEN LoaderDuplicateRebound(rs, ii)
    ELSE IF rs[ii].type = 4 /\ LoaderScanTarget(rs, ii) /= 0
    THEN InsertAt(RemoveAt(rs, ii), LoaderScanTarget(rs, ii), rs[ii])
    ELSE rs

\* the row the while loop of the first pattern stops at: the nearest row at
\* or before ii that is no Substitution/Timeout; when there is none the index
\* runs on from the end of the list (0: every row is one, IndexError)
LoaderRowToMove(rs, ii) ==
    IF LastNonSubUpTo(rs, ii) /= 0 THEN LastNonSubUpTo(rs, ii)
    ELSE LastNonSubUpTo(rs, Len(rs))

\* the loop that rebuilds the row list in the first pattern, after n rows:
\* a row with the EVENTNUM to move is held back (the one held before is
\* lost), a row with the reported EVENTNUM is followed by the row held;
\* unbound: that row came while no row was held
RECURSIVE LoaderRebuildUpTo(_, _, _, _)
LoaderRebuildUpTo(rs, n, moveNum, e) ==
    IF n = 0 THEN [rows |-> <<>>, held |-> <<>>, unbound |-> FALSE]
    ELSE LET st == LoaderRebuildUpTo(rs, n - 1, moveNum, e)
         IN  IF st.unbound THEN st
             ELSE IF rs[n].num = moveNum THEN [st EXCEPT !.held = <<rs[n]>>]
             ELSE IF rs[n].num = e
             THEN IF st.held = <<>> THEN [st EXCEPT !.unbound = TRUE]
                  ELSE [st EXCEPT !.rows = Append(Append(@, rs[n]), st.held[1])]
             ELSE [st EXCEPT !.rows = Append(@, rs[n])]

\* the first pattern: Substitution/Timeout rows between a free throw and its rebound
LoaderMoveBehindSubs(rs, ii, e) ==
    IF LoaderRowToMove(rs, ii) = 0 THEN [rows |-> rs, err |-> "IndexError"]
    ELSE LET st == LoaderRebuildUpTo(rs, Len(rs), rs[LoaderRowToMove(rs, ii)].num, e)
         IN  IF st.unbound THEN [rows |-> rs, err |-> "UnboundLocalError"]
             ELSE [rows |-> st.rows, err |-> ""]

\* the whole routine: the new row list and the exception it ends with ("" none)
fix_common_event_order_error(rs, e) ==
    LET ii == IssueIndexLast(rs, e)
        pw == WrapIdx(rs, ii - 1)
    IN  IF e = 0 THEN [rows |-> rs, err |-> "ValueError"]
        ELSE IF ii = 0 THEN [rows |-> rs, err |-> ""]
        ELSE IF rs[ii].type \in {8, 9}
        THEN LoaderMoveBehindSubs(rs, ii, e)
        ELSE IF ii = Len(rs) THEN [rows |-> rs, err |-> "IndexError"]
        ELSE IF rs[ii].type = 18 /\ rs[ii + 1].type = 4
        THEN [rows |-> SwapAt(rs, ii, ii + 1), err |-> ""]
        ELSE IF rs[ii + 1].type = 4 /\ rs[ii + 1].num = e - 1
        THEN [rows |-> SwapAt(rs, ii, ii + 1), err |-> ""]
        ELSE IF /\ rs[ii + 1].type = 4 /\ rs[ii + 1].num = e + 2
                /\ rs[pw].type = 2 /\ rs[pw].num = e + 1
        THEN [rows |-> SwapAt(rs, pw, ii), err |-> ""]
        ELSE IF /\ rs[ii + 1].type = 4 /\ rs[ii + 1].num = e - 2
                /\ rs[pw].type = 2 /\ rs[pw].num = e - 1
        THEN [rows |-> [rs EXCEPT ![ii + 1] = rs[ii], ![ii] = rs[pw],
                                  ![pw] = rs[ii + 1]],
              err |-> ""]
        ELSE [rows |-> LoaderNotHandled(rs, ii), err |-> ""]

(***************************************************************************)
(* StatsNbaEnhancedPbpLoader._use_stats_nba_v3_event_order                 *)
(***************************************************************************)

\* mutant: numbers unknown to playbyplayv3 rank before all others
OrderRank_UnknownFirst(orc, n) ==
    LET S == { k \in 1..Len(orc) : orc[k] = n }
    IN  IF S = {} THEN 0 ELSE MinOf(S)

\* order_map: rank of an action number = position of its first occurrence
\* among the v3 actions sorted by actionId; unknown numbers rank after all
OrderRank(orc, n) ==
    LET S == { k \in 1..Len(orc) : orc[k] = n }
    IN  IF S = {} THEN Len(orc) + 1000 ELSE MinOf(S)

\* sorted(rows, key=(rank, EVENTNUM)); a stable sort, rows keep their order
\* on equal keys
RECURSIVE SortByOracle(_, _)
SortByOracle(rs, orc) ==
    IF rs = <<>> THEN <<>>
    ELSE LET Less(a, b) ==
                 \/ OrderRank(orc, rs[a].num) < OrderRank(orc, rs[b].num)
                 \/ /\ OrderRank(orc, rs[a].num) = OrderRank(orc, rs[b].num)
                    /\ \/ rs[a].num < rs[b].num
                       \/ rs[a].num = rs[b].num /\ a < b
             m == CHOOSE a \in 1..Len(rs) :
                      \A b \in 1..Len(rs) : b /= a => Less(a, b)
         IN  <<rs[m]>> \o SortByOracle(RemoveAt(rs, m), orc)

use_stats_nba_v3_event_order(rs, orc) ==
    IF orc = <<>> THEN rs ELSE SortByOracle(rs, orc)

(***************************************************************************)
(* PbpProcessor._fix_event_order                                           *)
(***************************************************************************)

\* the first row whose EVENTNUM matches (the search loop breaks)
IssueIndexFirst(rs, e) ==
    LET S == { i \in 1..Len(rs) : rs[i].num = e }
    IN  IF S = {} THEN 0 ELSE MinOf(S)

\* range(issue_event_index + 1, min(issue_event_index + 10, len(rows)))
FallbackSpan == 10

\* mutant: the scan visits one row more
FallbackScanned_OneMore(rs, ii) ==
    LET hi   == IF ii + FallbackSpan < Len(rs) THEN ii + FallbackSpan ELSE Len(rs)
        stop == { j \in (ii + 1)..hi : rs[j].per /= rs[ii].per }
        lim  == IF stop = {} THEN hi ELSE MinOf(stop) - 1
    IN  (ii + 1)..lim

\* the rows the fallback scan visits: those of the range that come before
\* the first row of another period
FallbackScanned(rs, ii) ==
    LET hi   == IF ii - 1 + FallbackSpan < Len(rs)
                THEN ii - 1 + FallbackSpan ELSE Len(rs)
        stop == { j \in (ii + 1)..hi : rs[j].per /= rs[ii].per }
        lim  == IF stop = {} THEN hi ELSE MinOf(stop) - 1
    IN  (ii + 1)..lim

\* team_candidate_idx (0: None)
TeamCandidate(rs, ii) ==
    LET S == { j \in FallbackScanned(rs, ii) :
                 rs[j].type = 4 /\ IsTeamPid(rs[j].pid) }
    IN  IF S = {} THEN 0 ELSE MinOf(S)

\* player_candidate_idx (0: None); meaningful when there is no team candidate
PlayerCandidate(rs, ii) ==
    LET S == { j \in FallbackScanned(rs, ii) :
                 rs[j].type = 4 /\ ~IsTeamPid(rs[j].pid) }
    IN  IF S = {} THEN 0 ELSE MinOf(S)

FixResult(rs, err, logged, del, kind) ==
    [rows |-> rs, err |-> err, logged |-> logged, del |-> del, kind |-> kind]

\* mutant: the fallback deletes a player rebound whatever the strict flag
PlayerRebound_NoStrictCheck(rs, idx, strictMode) ==
    FixResult(RemoveAt(rs, idx), "", <<rs[idx].num>>, <<rs[idx].num>>, "delPlayer")

\* "Only PLAYER rebounds were seen": log, then re-raise under strict mode,
\* delete otherwise
PlayerRebound(rs, idx, strictMode) ==
    IF strictMode
    THEN FixResult(rs, "EventOrderError", <<rs[idx].num>>, <<>>, "refused")
    ELSE FixResult(RemoveAt(rs, idx), "", <<rs[idx].num>>, <<rs[idx].num>>,
                   "delPlayer")

\* the orphan-rebound fallback
Fallback(rs, ii, strictMode) ==
    LET t  == TeamCandidate(rs, ii)
        pl == PlayerCandidate(rs, ii)
    IN  IF t /= 0
        THEN FixResult(RemoveAt(rs, t), "", <<rs[t].num>>, <<rs[t].num>>, "delTeam")
        ELSE IF pl /= 0 THEN PlayerRebound(rs, pl, strictMode)
        ELSE FixResult(rs, "EventOrderError", <<>>, <<>>, "raise")

\* the whole routine
fix_event_order(rs, e, strictMode) ==
    LET ii == IssueIndexFirst(rs, e)
        Permuted(new) == FixResult(new, "", <<>>, <<>>, "pattern")
    IN  IF e = 0 \/ ii = 0
        THEN FixResult(rs, "EventOrderError", <<>>, <<>>, "raise")
        ELSE IF rs[ii].type \in {8, 9} /\ LastNonSubUpTo(rs, ii) /= 0
        THEN Permuted(MoveAfter(rs, LastNonSubUpTo(rs, ii), ii))
        ELSE IF rs[ii].type = 18 /\ ii + 1 <= Len(rs) /\ rs[ii + 1].type = 4
        THEN Permuted(SwapAt(rs, ii, ii + 1))
        ELSE IF /\ ii + 1 <= Len(rs)
                /\ rs[ii + 1].type = 4 /\ rs[ii + 1].num = e - 1
        THEN Permuted(SwapAt(rs, ii, ii + 1))
        ELSE IF /\ ii - 1 >= 1 /\ ii + 1 <= Len(rs)
                /\ rs[ii + 1].type = 4 /\ rs[ii - 1].type = 2
                /\ rs[ii + 1].num = e + 2 /\ rs[ii - 1].num = e + 1
        THEN Permuted(SwapAt(rs, ii - 1, ii))
        ELSE IF /\ ii - 1 >= 1 /\ ii + 1 <= Len(rs)
                /\ rs[ii + 1].type = 4 /\ rs[ii - 1].type = 2
                /\ rs[ii + 1].num = e - 2 /\ rs[ii - 1].num = e - 1
        THEN Permuted([rs EXCEPT ![ii - 1] = rs[ii + 1], ![ii] = rs[ii - 1],
                                 ![ii + 1] = rs[ii]])
        ELSE Fallback(rs, ii, strictMode)

(***************************************************************************)
(* The retry loops                                                         *)
(***************************************************************************)

\* self._check_rebound_event_order(6)
LoaderMaxRetries == 6
\* self._process_with_retries(max_retries=20)
ProcMaxRetries == 20

\* while attempts <= max_retries
LoopContinues(a, maxRetries) == a <= maxRetries

MaxRows == 3

RepairKinds == {"miss", "rebTeam", "rebPlayer", "foul", "sub", "replay"}

\* the row of a kind; a team rebound carries PLAYER1_ID 0 or a team id and a
\* stoppage is a substitution or a timeout, by the parity of the EVENTNUM
KindRow(k, n) ==
    CASE k = "miss"      -> Row(2, 201, 1, "", FALSE, FALSE)
      [] k = "rebTeam"   -> Row(4, IF n % 2 = 1 THEN 0 ELSE 1610612737, 1, "",
                                FALSE, FALSE)
      [] k = "rebPlayer" -> Row(4, 202, 1, "", FALSE, FALSE)
      [] k = "foul"      -> Row(6, 203, 2, "", FALSE, FALSE)
      [] k = "sub"       -> Row(IF n % 2 = 1 THEN 8 ELSE 9, 201, 1, "", FALSE, FALSE)
      [] k = "replay"    -> Row(18, 0, 0, "", FALSE, FALSE)

\* rows of the given kinds, EVENTNUMs a permutation of 1..n, the rows from
\* position split on in period 2
MkRows(kinds, perm, split) ==
    [ i \in 1..Len(kinds) |->
        [KindRow(kinds[i], perm[i]) EXCEPT
            !.num = perm[i],
            !.per = IF i >= split THEN 2 ELSE 1] ]

\* the last row moved to period 2
LastRowNextPeriod(rs) ==
    [rs EXCEPT ![Len(rs)].per = 2]

Ascending(n) == [ i \in 1..n |-> i ]

\* the runs: who repairs, REBOUND_STRICT_MODE, a log list supplied, the
\* playbyplayv3 order available, the last row in the next period
RepairConfigs ==
    { <<"loader", TRUE, FALSE, FALSE, FALSE>>,
      <<"loader", TRUE, FALSE, TRUE, FALSE>>,
      <<"proc", TRUE, TRUE, FALSE, FALSE>>,
      <<"proc", TRUE, TRUE, FALSE, TRUE>>,
      <<"proc", FALSE, TRUE, FALSE, FALSE>>,
      <<"proc", TRUE, FALSE, FALSE, FALSE>> }

RepairIdle ==
    /\ mode = "idle"
    /\ rows = <<>>
    /\ rows0 = <<>>
    /\ pc = "done"
    /\ attempts = 0
    /\ fixCalls = 0
    /\ outcome = "returned"
    /\ oracle = <<>>
    /\ strict = TRUE
    /\ logOn = FALSE
    /\ dlog = <<>>
    /\ deleted = <<>>
    /\ lastFix = [kind |-> "none", before |-> <<>>]

RepairInit ==
    /\ \E n \in 1..MaxRows, cfg \in RepairConfigs :
       \E k \in [1..n -> RepairKinds], pm \in Permutations(1..n) :
          LET base == MkRows(k, pm, n + 1) IN
          /\ rows = IF cfg[5] THEN LastRowNextPeriod(base) ELSE base
          /\ mode = cfg[1]
          /\ strict = cfg[2]
          /\ logOn = cfg[3]
          /\ oracle = IF cfg[4] THEN Ascending(Len(base)) ELSE <<>>
    /\ rows0 = rows
    /\ pc = "loop"
    /\ attempts = 0
    /\ fixCalls = 0
    /\ outcome = "running"
    /\ dlog = <<>>
    /\ deleted = <<>>
    /\ lastFix = [kind |-> "none", before |-> <<>>]

\* loader loop: the probe passes, the method returns
LoaderPass ==
    /\ mode = "loader" /\ pc = "loop"
    /\ LoopContinues(attempts, LoaderMaxRetries)
    /\ ProbeFails(rows) = 0
    /\ pc' = "done"
    /\ outcome' = "returned"
    /\ UNCHANGED <<mode, rows, rows0, attempts, fixCalls, oracle, strict, logOn,
                   dlog, deleted, lastFix>>

\* loader loop: the probe raises; fix, rebuild the items, attempts += 1
LoaderRepair ==
    /\ mode = "loader" /\ pc = "loop"
    /\ LoopContinues(attempts, LoaderMaxRetries)
    /\ ProbeFails(rows) /= 0
    /\ LET res == fix_common_event_order_error(
                      rows, IssueEventNum(rows, ProbeFails(rows)))
       IN  /\ fixCalls' = fixCalls + 1
           /\ lastFix' = [kind |-> "loader", before |-> rows]
           /\ IF res.err /= ""
              THEN /\ outcome' = res.err
                   /\ pc' = "done"
                   /\ UNCHANGED <<rows, attempts>>
              ELSE /\ rows' = res.rows
                   /\ attempts' = attempts + 1
                   /\ UNCHANGED <<outcome, pc>>
    /\ UNCHANGED <<mode, rows0, oracle, strict, logOn, dlog, deleted>>

\* after the loop: reorder by playbyplayv3, rebuild, probe once more; an
\* EventOrderError of that probe is caught and the method returns
LoaderV3 ==
    /\ mode = "loader" /\ pc = "loop"
    /\ ~LoopContinues(attempts, LoaderMaxRetries)
    /\ rows' = use_stats_nba_v3_event_order(rows, oracle)
    /\ pc' = "done"
    /\ outcome' = "returned"
    /\ UNCHANGED <<mode, rows0, attempts, fixCalls, oracle, strict, logOn, dlog,
                   deleted, lastFix>>

\* processor loop: the probe passes, possessions are built, the method returns
ProcPass ==
    /\ mode = "proc" /\ pc = "loop"
    /\ LoopContinues(attempts, ProcMaxRetries)
    /\ ProbeFails(rows) = 0
    /\ pc' = "done"
    /\ outcome' = "returned"
    /\ UNCHANGED <<mode, rows, rows0, attempts, fixCalls, oracle, strict, logOn,
                   dlog, deleted, lastFix>>

\* processor loop: the except block
ProcHandleError ==
    /\ mode = "proc" /\ pc = "loop"
    /\ LoopContinues(attempts, ProcMaxRetries)
    /\ ProbeFails(rows) /= 0
    /\ IF attempts = ProcMaxRetries
       THEN /\ outcome' = "EventOrderError"
            /\ pc' = "done"
            /\ UNCHANGED <<rows, attempts, fixCalls, dlog, deleted, lastFix>>
       ELSE LET res == fix_event_order(
                           rows, IssueEventNum(rows, ProbeFails(rows)), strict)
            IN  /\ fixCalls' = fixCalls + 1
                /\ lastFix' = [kind |-> res.kind, before |-> rows]
                /\ rows' = res.rows
                /\ dlog' = IF logOn THEN dlog \o res.logged ELSE dlog
                /\ deleted' = deleted \o res.del
                /\ IF res.err /= ""
                   THEN /\ outcome' = res.err
                        /\ pc' = "done"
                        /\ UNCHANGED attempts
                   ELSE /\ attempts' = attempts + 1
                        /\ UNCHANGED <<outcome, pc>>
    /\ UNCHANGED <<mode, rows0, oracle, strict, logOn>>

(***************************************************************************)
(* Shot-clock annotator (resources/enhanced_pbp/shot_clock.py)             *)
(***************************************************************************)

\* cfg.full_reset, in hundredths of a second
FullReset == 2400

\* the short reset of the NBA from 2018-19 on and of the WNBA / G-League
ShortReset == 1400

\* An event as the annotator sees it: the class (type), period, seconds
\* remaining (hundredths), team_id, offense team id (0: none), is_made,
\* is_blocked, "airball" in the description, is_real_rebound, oreb, whether
\* the rebound carries a missed_shot link, is_shot_clock_violation,
\* is_loose_ball_foul, is_end_ft, is_possession_ending_event,
\* is_goaltend_violation, is_make_that_does_not_end_possession,
\* is_no_turnover, is_kicked_ball, is_technical / is_double_technical /
\* is_double_foul, is_shooting_foul / is_shooting_block_foul.
ScEvent(type, team, off, flags) ==
    [type |-> type, per |-> 1, sec |-> 0, team |-> team, off |-> off,
     made |-> "made" \in flags, blocked |-> "blocked" \in flags,
     airball |-> "airball" \in flags, real |-> "real" \in flags,
     oreb |-> "oreb" \in flags, linked |-> "linked" \in flags,
     scv |-> "scv" \in flags, loose |-> "loose" \in flags,
     endft |-> "endft" \in flags, ending |-> "ending" \in flags,
     goaltend |-> "goaltend" \in flags, andOne |-> "andOne" \in flags,
     noTurnover |-> "noTurnover" \in flags, kicked |-> "kicked" \in flags,
     tech |-> "tech" \in flags, shooting |-> "shooting" \in flags]

IsViolation(r) == r.type = 7

IsFoul(r) == r.type = 6

\* a FieldGoal or FreeThrow whose is_made is False
IsMissedShotEvent(e) ==
    (IsFieldGoal(e) \/ IsFreeThrow(e)) /\ ~e.made

\* reb.missed_shot: the previous event when the rebound is linked to the
\* miss it follows, 0 (None) otherwise
MissedShotLink(evs, r) ==
    LET p == PrevIdx(evs, r)
    IN  IF evs[r].linked /\ p /= 0 /\ IsMissedShotEvent(evs[p]) THEN p ELSE 0

\* mutant: every rebounded miss counts as having hit the rim
infer_rim_hit_ignoring_block(evs, m) ==
    IF m = 0 THEN "none" ELSE "yes"

\* _infer_rim_hit_from_missed_shot: "none" | "no" | "yes"
infer_rim_hit_from_missed_shot(evs, m) ==
    IF m = 0 THEN "none"
    ELSE IF IsFieldGoal(evs[m]) /\ evs[m].blocked THEN "no"
    ELSE IF evs[m].airball THEN "no"
    ELSE "yes"

\* get_all_events_at_current_time: the events reached over previous_event
\* and over next_event while seconds_remaining stays that of the event
EventsAtSameTime(evs, i) ==
    { j \in 1..i : \A k \in (j + 1)..i :
          PrevIdx(evs, k) = k - 1 /\ evs[k - 1].sec = evs[i].sec }
    \cup
    { j \in i..Len(evs) : \A k \in i..(j - 1) :
          NextIdx(evs, k) = k + 1 /\ evs[k + 1].sec = evs[i].sec }

\* the bounded backward scan: range(6)
BackwardScanSteps == 6

\* the events the bounded backward scan of a rebound visits
BackwardScan(evs, r) ==
    { j \in 1..(r - 1) :
        /\ r - j <= BackwardScanSteps
        /\ \A k \in (j + 1)..r :
              /\ PrevIdx(evs, k) = k - 1
              /\ evs[k - 1].per = evs[r].per
              /\ evs[k - 1].sec = evs[r].sec }

\* _infer_rim_hit_from_rebound: "none" | "no" | "yes"
infer_rim_hit_from_rebound(evs, r) ==
    LET rim == infer_rim_hit_from_missed_shot(evs, MissedShotLink(evs, r))
        c1  == { j \in EventsAtSameTime(evs, r) :
                   j < r /\ IsMissedShotEvent(evs[j]) }
        c2  == { j \in BackwardScan(evs, r) : IsMissedShotEvent(evs[j]) }
    IN  IF rim /= "none" THEN rim
        ELSE IF c1 /= {} THEN infer_rim_hit_from_missed_shot(evs, MaxOf(c1))
        ELSE IF c2 /= {} THEN infer_rim_hit_from_missed_shot(evs, MaxOf(c2))
        ELSE "none"

\* _safe_offense_team_id (0: None); i = 0 stands for a None event
RECURSIVE safe_offense_team_id(_, _, _)
safe_offense_team_id(evs, i, backfill) ==
    IF i = 0 THEN 0
    ELSE IF evs[i].off /= 0 THEN evs[i].off
    ELSE IF /\ backfill
            /\ PrevIdx(evs, i) /= 0
            /\ evs[PrevIdx(evs, i)].per = evs[i].per
         THEN safe_offense_team_id(evs, PrevIdx(evs, i), TRUE)
    ELSE 0

\* _infer_possession_changed (no override is set on the events)
infer_possession_changed(evs, i) ==
    LET now == safe_offense_team_id(evs, i, TRUE)
        nxt == safe_offense_team_id(evs, NextIdx(evs, i), FALSE)
    IN  IF now /= 0 /\ nxt /= 0 THEN now /= nxt
        ELSE evs[i].ending

\* mutant: the context is taken from every event of the timestamp
rim_hit_context_any_order(evs, i) ==
    \/ \E j \in EventsAtSameTime(evs, i) \ {i} :
          /\ IsRebound(evs[j]) /\ evs[j].real
          /\ infer_rim_hit_from_rebound(evs, j) = "yes"
    \/ \E j \in EventsAtSameTime(evs, i) \ {i} :
          /\ IsFieldGoal(evs[j]) /\ ~evs[j].made
          /\ infer_rim_hit_from_missed_shot(evs, j) = "yes"

\* _rim_hit_context_at_time
rim_hit_context_at_time(evs, i) ==
    LET prior == { j \in EventsAtSameTime(evs, i) : j < i }
    IN  \/ \E j \in prior :
              /\ IsRebound(evs[j]) /\ evs[j].real
              /\ infer_rim_hit_from_rebound(evs, j) = "yes"
        \/ \E j \in prior :
              /\ IsFieldGoal(evs[j]) /\ ~evs[j].made
              /\ infer_rim_hit_from_missed_shot(evs, j) = "yes"

\* mutant: a retained stop always sets the short reset
retained_stop_short_only(state, short, rimHitContext) ==
    IF short >= FullReset THEN FullReset ELSE short

\* _retained_stop_new_state (the two cfg switches keep their defaults)
retained_stop_new_state(state, short, rimHitContext) ==
    IF short >= FullReset THEN FullReset
    ELSE IF rimHitContext THEN short
    ELSE IF short >= state THEN short ELSE state

\* mutant: only the possession-change fallback decides the new state
update_after_event_possession_only(evs, short, i, state) ==
    IF infer_possession_changed(evs, i) THEN FullReset ELSE state

\* _update_shot_clock_after_event
update_shot_clock_after_event(evs, short, i, state) ==
    LET e        == evs[i]
        changed  == infer_possession_changed(evs, i)
        offNow   == safe_offense_team_id(evs, i, TRUE)
        defense  == offNow /= 0 /\ e.team /= offNow
    IN  IF IsViolation(e) /\ e.goaltend THEN FullReset
        ELSE IF IsRebound(e) /\ e.real
        THEN IF e.oreb
             THEN IF infer_rim_hit_from_rebound(evs, i) = "no" THEN state
                  ELSE IF short < FullReset THEN short ELSE FullReset
             ELSE FullReset
        ELSE IF IsFieldGoal(e) /\ e.made
        THEN IF e.andOne THEN state ELSE FullReset
        ELSE IF IsTurnover(e) /\ ~e.noTurnover
        THEN IF e.kicked /\ defense /\ ~changed
             THEN retained_stop_new_state(state, short, FALSE)
             ELSE FullReset
        ELSE IF IsFreeThrow(e) /\ e.endft
        THEN IF changed THEN FullReset ELSE state
        ELSE IF IsJumpBall(e)
        THEN IF changed THEN FullReset ELSE state
        ELSE IF IsFoul(e) /\ defense /\ ~changed
        THEN IF e.tech \/ e.shooting THEN state
             ELSE retained_stop_new_state(
                      state, short, e.loose /\ rim_hit_context_at_time(evs, i))
        ELSE IF IsViolation(e) /\ defense /\ ~changed
        THEN retained_stop_new_state(state, short, FALSE)
        ELSE IF changed THEN FullReset
        ELSE state

\* round(x, 1) on hundredths; the clocks of ScInit keep x off the ties
Round1(x) == ((x + 5) \div 10) * 10

\* mutant: the stored value without the shot-clock-violation clamp
shot_clock_display_unclamped(evs, i, state) ==
    LET raw == IF state > FullReset THEN FullReset ELSE state
    IN  Round1(IF raw < evs[i].sec THEN raw ELSE evs[i].sec)

\* ev.shot_clock as stored by _annotate_period_shot_clock
shot_clock_display(evs, i, state) ==
    LET capped == IF state > FullReset THEN FullReset ELSE state
        raw    == IF capped < 0 THEN 0 ELSE capped
        shown  == Round1(IF raw < evs[i].sec THEN raw ELSE evs[i].sec)
    IN  IF IsTurnover(evs[i]) /\ evs[i].scv THEN 0 ELSE shown

\* shot_clock_state at the start of event i (after the decay) and after it
RECURSIVE StateBefore(_, _, _), StateAfter(_, _, _)
StateBefore(evs, short, i) ==
    IF i = 1 \/ evs[i].per /= evs[i - 1].per \/ IsStartOfPeriod(evs[i])
    THEN FullReset
    ELSE LET diff == evs[i - 1].sec - evs[i].sec
             dt   == IF diff > 0 THEN diff ELSE 0
             left == StateAfter(evs, short, i - 1) - dt
         IN  IF left > 0 THEN left ELSE 0

StateAfter(evs, short, i) ==
    update_shot_clock_after_event(evs, short, i, StateBefore(evs, short, i))

MaxScLen == 3

ScKinds ==
    { "fgMiss", "fgBlocked", "fgAirball", "ftMiss", "fgMade2", "orebLinked",
      "orebUnlinked", "dreb", "tovScv", "foulLoose", "start" }

ScKindEvent(k) ==
    CASE k = "fgMiss"       -> ScEvent(2, 1, 1, {})
      [] k = "fgBlocked"    -> ScEvent(2, 1, 1, {"blocked"})
      [] k = "fgAirball"    -> ScEvent(2, 1, 1, {"airball"})
      [] k = "ftMiss"       -> ScEvent(3, 1, 1, {"endft"})
      [] k = "fgMade2"      -> ScEvent(1, 2, 2, {"made", "ending"})
      [] k = "orebLinked"   -> ScEvent(4, 1, 1, {"real", "oreb", "linked"})
      [] k = "orebUnlinked" -> ScEvent(4, 1, 1, {"real", "oreb"})
      [] k = "dreb"         -> ScEvent(4, 2, 1, {"real", "linked", "ending"})
      [] k = "tovScv"       -> ScEvent(5, 1, 1, {"scv", "ending"})
      [] k = "foulLoose"    -> ScEvent(6, 2, 1, {"loose"})
      [] k = "start"        -> ScEvent(12, 0, 0, {})

\* the runs: game clock at the first event, the time between two
\* timestamps (both in hundredths, even so that no value lands on a rounding
\* tie), cfg.short_reset
ScConfigs == { <<3000, 400, ShortReset>>, <<2026, 400, FullReset>> }

\* events of the given kinds; tie[i] puts event i at the timestamp of event
\* i - 1, otherwise the clock has run one step; a StartOfPeriod after the
\* first event opens the next period
MkEvents(kinds, tie, start, step) ==
    [ i \in 1..Len(kinds) |->
        [ScKindEvent(kinds[i]) EXCEPT
            !.sec = start - step * Cardinality({ j \in 2..i : ~tie[j] }),
            !.per = 1 + Cardinality({ j \in 2..i : kinds[j] = "start" })] ]

ScIdle ==
    /\ scEvents = <<>>
    /\ scShort = ShortReset
    /\ scDone = TRUE
    /\ scBefore = <<>>
    /\ scClock = <<>>
    /\ scAfter = <<>>

ScInit ==
    /\ \E n \in 1..MaxScLen, cfg \in ScConfigs :
       \E k \in [1..n -> ScKinds], tie \in [1..n -> BOOLEAN] :
          /\ ~tie[1]
          /\ Linkable(MkEvents(k, tie, cfg[1], cfg[2]))
          /\ scEvents = MkEvents(k, tie, cfg[1], cfg[2])
          /\ scShort = cfg[3]
    /\ scDone = FALSE
    /\ scBefore = <<>>
    /\ scClock = <<>>
    /\ scAfter = <<>>

\* annotate_shot_clock over the whole list
AnnotateShotClock ==
    /\ ~scDone
    /\ scDone' = TRUE
    /\ scBefore' = [ i \in 1..Len(scEvents) |-> StateBefore(scEvents, scShort, i) ]
    /\ scClock' = [ i \in 1..Len(scEvents) |->
                      shot_clock_display(scEvents, i,
                                         StateBefore(scEvents, scShort, i)) ]
    /\ scAfter' = [ i \in 1..Len(scEvents) |-> StateAfter(scEvents, scShort, i) ]
    /\ UNCHANGED <<scEvents, scShort>>

MaxRuleLen == 2

\* one event per branch of _update_shot_clock_after_event; team 1 has the
\* ball unless the event says otherwise
ScRuleKinds ==
    { "goaltend", "fgMiss", "fgBlocked", "orebLinked", "dreb", "fgMade",
      "andOne", "tov", "tovNoTurnover", "kickedDefense",
      "kickedOffense", "ftEnd", "ftEndOther", "jumpKept", "jumpLost",
      "foulDefense", "foulTech", "foulShooting", "foulLoose",
      "violDefense", "subOther", "start", "startMidPeriod" }

ScRuleKindEvent(k) ==
    CASE k = "goaltend"       -> ScEvent(7, 2, 1, {"goaltend", "ending"})
      [] k = "fgMiss"         -> ScEvent(2, 1, 1, {})
      [] k = "fgBlocked"      -> ScEvent(2, 1, 1, {"blocked"})
      [] k = "orebLinked"     -> ScEvent(4, 1, 1, {"real", "oreb", "linked"})
      [] k = "dreb"           -> ScEvent(4, 2, 1, {"real", "linked", "ending"})
      [] k = "fgMade"         -> ScEvent(1, 1, 1, {"made", "ending"})
      [] k = "andOne"         -> ScEvent(1, 1, 1, {"made", "andOne"})
      [] k = "tov"            -> ScEvent(5, 1, 1, {"ending"})
      [] k = "tovNoTurnover"  -> ScEvent(5, 1, 1, {"noTurnover"})
      [] k = "kickedDefense"  -> ScEvent(5, 2, 1, {"kicked"})
      [] k = "kickedOffense"  -> ScEvent(5, 1, 1, {"kicked", "ending"})
      [] k = "ftEnd"          -> ScEvent(3, 1, 1, {"endft"})
      [] k = "ftEndOther"     -> ScEvent(3, 2, 2, {"endft", "made", "ending"})
      [] k = "jumpKept"       -> ScEvent(10, 1, 1, {})
      [] k = "jumpLost"       -> ScEvent(10, 2, 2, {"ending"})
      [] k = "foulDefense"    -> ScEvent(6, 2, 1, {})
      [] k = "foulTech"       -> ScEvent(6, 2, 1, {"tech"})
      [] k = "foulShooting"   -> ScEvent(6, 2, 1, {"shooting"})
      [] k = "foulLoose"      -> ScEvent(6, 2, 1, {"loose"})
      [] k = "violDefense"    -> ScEvent(7, 2, 1, {})
      [] k = "subOther"       -> ScEvent(8, 2, 2, {})
      [] k = "start"          -> ScEvent(12, 0, 0, {})
      [] k = "startMidPeriod" -> ScEvent(12, 0, 0, {})

\* game clock at the first event, time between two timestamps, short_reset
ScRuleConfigs == { <<3000, 1200, ShortReset>>, <<2026, 400, FullReset>> }

\* as MkEvents; a "startMidPeriod" is a StartOfPeriod row that carries the
\* period of the rows before it
MkRuleEvents(kinds, tie, start, step) ==
    [ i \in 1..Len(kinds) |->
        [ScRuleKindEvent(kinds[i]) EXCEPT
            !.sec = start - step * Cardinality({ j \in 2..i : ~tie[j] }),
            !.per = 1 + Cardinality({ j \in 2..i : kinds[j] = "start" })] ]

\* up to MaxRuleLen events of ScRuleKinds, with or without a missed shot of
\* team 1 after them
ScRuleInit ==
    /\ \E n \in 1..MaxRuleLen, cfg \in ScRuleConfigs, trail \in BOOLEAN :
       \E k \in [1..n -> ScRuleKinds], tie \in [1..n -> BOOLEAN] :
          LET kinds == IF trail THEN Append(k, "fgMiss") ELSE k
              ties  == IF trail THEN Append(tie, FALSE) ELSE tie
          IN  /\ ~tie[1]
              /\ Linkable(MkRuleEvents(kinds, ties, cfg[1], cfg[2]))
              /\ scEvents = MkRuleEvents(kinds, ties, cfg[1], cfg[2])
              /\ scShort = cfg[3]
    /\ scDone = FALSE
    /\ scBefore = <<>>
    /\ scClock = <<>>
    /\ scAfter = <<>>

(***************************************************************************)
(* NbaEnhancedPbpLoader._add_extra_attrs_to_all_events                     *)
(***************************************************************************)

\* the two teams of a game
Teams == {1, 2}

\* An item as the pass reads it: the class (type), period, seconds remaining
\* (whole seconds), team_id, is_made and shot_value of a shot,
\* counts_towards_penalty of a foul.
AttrItem(type, team, made, value, penalty) ==
    [type |-> type, per |-> 1, sec |-> 0, team |-> team, made |-> made,
     value |-> value, penalty |-> penalty]

\* a defaultdict of fouls to give: the teams that have a key, their values
\* (0 off the keys) and what default_factory returns
FoulsDict(keys, val, dflt) ==
    [keys |-> keys, val |-> [t \in Teams |-> IF t \in keys THEN val[t] ELSE 0],
     dflt |-> dflt]

\* fouls_to_give[team] read on a copy of the defaultdict
FoulsRead(d, t) == IF t \in d.keys THEN d.val[t] ELSE d.dflt

\* the last regulation period
RegulationPeriods == 4

\* the game clock at and under which the two-minute rule applies
TwoMinutes == 120

\* mutant: a StartOfPeriod leaves the dictionary as it is
FoulsAtPeriodStart_NoReset(items, i, d) == d

\* the reset at a StartOfPeriod or at the first of several items
FoulsAtPeriodStart(items, i, d) ==
    IF Len(items) > 1 /\ (IsStartOfPeriod(items[i]) \/ i = 1)
    THEN FoulsDict({}, d.val, IF items[i].per <= RegulationPeriods THEN 4 ELSE 3)
    ELSE d

\* mutant: the two-minute rule leaves the dictionary as it is
FoulsUnclamped(items, i, d) == d

\* the two-minute rule
FoulsClamped(items, i, d) ==
    IF items[i].sec > TwoMinutes THEN d
    ELSE IF Cardinality(d.keys) <= 1
    THEN FoulsDict(d.keys, [t \in Teams |-> IF d.val[t] < 1 THEN d.val[t] ELSE 1], 1)
    ELSE FoulsDict(d.keys, [t \in Teams |-> IF d.val[t] < 1 THEN d.val[t] ELSE 1],
                   d.dflt)

\* a Foul that counts towards the penalty takes one foul to give, if any
FoulsAfterFoul(items, i, d) ==
    LET e == items[i]
        v == FoulsRead(d, e.team)
    IN  IF e.type = 6 /\ e.penalty
        THEN FoulsDict(d.keys \cup {e.team},
                       [d.val EXCEPT ![e.team] = IF v > 0 THEN v - 1 ELSE v],
                       d.dflt)
        ELSE d

\* mutant: every shot scores, made or not
ScoreAfter_AnyShot(items, i, sc) ==
    IF items[i].type \in {1, 2, 3}
    THEN [sc EXCEPT ![items[i].team] = @ + items[i].value]
    ELSE sc

\* score after the item: a made FieldGoal or FreeThrow adds its shot_value
ScoreAfter(items, i, sc) ==
    IF items[i].type \in {1, 2, 3} /\ items[i].made
    THEN [sc EXCEPT ![items[i].team] = @ + items[i].value]
    ELSE sc

\* the accumulators after the loop body has run on items 1..i
RECURSIVE AttrsAfter(_, _)
AttrsAfter(items, i) ==
    IF i = 0
    THEN [fouls |-> FoulsDict({}, [t \in Teams |-> 0], 4),
          score |-> [t \in Teams |-> 0]]
    ELSE LET st == AttrsAfter(items, i - 1)
         IN  [fouls |-> FoulsAfterFoul(items, i,
                            FoulsClamped(items, i,
                                FoulsAtPeriodStart(items, i, st.fouls))),
              score |-> ScoreAfter(items, i, st.score)]

\* the first item at which the loop reads self.items[i + 1] past the end:
\* a StartOfPeriod in last position of several items (0: none)
LinkFailsAt(items) ==
    IF Len(items) > 1 /\ IsStartOfPeriod(items[Len(items)]) THEN Len(items) ELSE 0

\* previous_event of item i as the loop sets it
LinkPrev(items, i) == PrevIdx(items, i)

\* next_event of item i as the loop sets it
LinkNext(items, i) == NextIdx(items, i)

MaxAttrLen == 3

AttrKinds ==
    { "ftMade1", "fgMade2", "fgMiss1", "foulPen1", "foulPen2", "foulOther1",
      "start", "nextPeriod" }

AttrKindItem(k) ==
    CASE k = "ftMade1"    -> AttrItem(3, 1, TRUE, 1, FALSE)
      [] k = "fgMade2"    -> AttrItem(1, 2, TRUE, 3, FALSE)
      [] k = "fgMiss1"    -> AttrItem(2, 1, FALSE, 2, FALSE)
      [] k = "foulPen1"   -> AttrItem(6, 1, FALSE, 0, TRUE)
      [] k = "foulPen2"   -> AttrItem(6, 2, FALSE, 0, TRUE)
      [] k = "foulOther1" -> AttrItem(6, 1, FALSE, 0, FALSE)
      [] k = "start"      -> AttrItem(12, 0, FALSE, 0, FALSE)
      [] k = "nextPeriod" -> AttrItem(2, 1, FALSE, 2, FALSE)

\* items of the given kinds: a "start" or "nextPeriod" item after the first
\* opens the next period; late[i] puts item i inside the last two minutes
MkAttrItems(kinds, late, firstPeriod) ==
    [ i \in 1..Len(kinds) |->
        [AttrKindItem(kinds[i]) EXCEPT
            !.per = firstPeriod + Cardinality(
                        { j \in 2..i : kinds[j] \in {"start", "nextPeriod"} }),
            !.sec = IF late[i] THEN 100 ELSE 300] ]

AttrIdle ==
    /\ atItems = <<>>
    /\ atOutcome = "idle"
    /\ atPrev = <<>>
    /\ atNext = <<>>
    /\ atFouls = <<>>
    /\ atScore = <<>>

AttrInit ==
    /\ \E n \in 1..MaxAttrLen, firstPeriod \in {1, 4} :
       \E k \in [1..n -> AttrKinds], late \in [1..n -> BOOLEAN] :
          atItems = MkAttrItems(k, late, firstPeriod)
    /\ atOutcome = "ready"
    /\ atPrev = <<>>
    /\ atNext = <<>>
    /\ atFouls = <<>>
    /\ atScore = <<>>

\* the loop of _add_extra_attrs_to_all_events; it stops at the item where
\* self.items[i + 1] raises IndexError, the earlier items keep their attributes
AddExtraAttrs ==
    /\ atOutcome = "ready"
    /\ LET bad  == LinkFailsAt(atItems)
           upTo == IF bad = 0 THEN Len(atItems) ELSE bad - 1
       IN  /\ atOutcome' = IF bad = 0 THEN "done" ELSE "IndexError"
           /\ atPrev' = [ i \in 1..upTo |-> LinkPrev(atItems, i) ]
           /\ atNext' = [ i \in 1..upTo |-> LinkNext(atItems, i) ]
           /\ atFouls' = [ i \in 1..upTo |-> AttrsAfter(atItems, i).fouls ]
           /\ atScore' = [ i \in 1..upTo |-> AttrsAfter(atItems, i).score ]
    /\ UNCHANGED atItems

(***************************************************************************)
(* nba_stats_parser: parse_game_data, the event classes, _build_possessions *)
(***************************************************************************)

\* An event of the parser: EVENTMSGTYPE, team_id, the two player ids of a
\* Substitution, what the description of a FreeThrow contains ("MISS",
\* " PTS)", the trip), EVENTMSGACTIONTYPE of a Turnover; PERIOD is set when
\* the list is put together.
PsEvent(type, team, out, in, miss, pts, trip, action) ==
    [type |-> type, team |-> team, out |-> out, in |-> in, miss |-> miss,
     pts |-> pts, trip |-> trip, action |-> action, per |-> 1]

\* FieldGoal.is_made: no row attribute maps to "made"
FieldGoal_is_made(e) == e.type = 1

\* "1 of 1", "2 of 2", "3 of 3" or "Technical" in the description
FreeThrow_is_final(e) == e.trip \in {"1 of 1", "2 of 2", "3 of 3", "Technical"}

\* FreeThrow.is_made, cached once previous_event / next_event are linked
FreeThrow_is_made(events, i) ==
    LET e == events[i] IN
    IF e.miss THEN FALSE
    ELSE IF e.pts THEN TRUE
    ELSE IF /\ FreeThrow_is_final(e)
            /\ i < Len(events)
            /\ events[i + 1].type = 4
            /\ events[i + 1].team # e.team
         THEN FALSE
         ELSE TRUE

\* is_made of a FieldGoal or FreeThrow
Shot_is_made(events, i) ==
    IF events[i].type = 3 THEN FreeThrow_is_made(events, i)
    ELSE FieldGoal_is_made(events[i])

\* Rebound.missed_shot: index of the missed shot, 0 when RuntimeError is raised
Rebound_missed_shot(events, i) ==
    IF i > 1 /\ events[i - 1].type \in {1, 2, 3} /\ ~Shot_is_made(events, i - 1)
    THEN i - 1 ELSE 0

\* Rebound.oreb
Rebound_oreb(events, i) ==
    LET m == Rebound_missed_shot(events, i)
    IN  m # 0 /\ events[i].team = events[m].team

\* "of 1" in the description
ContainsOf1(e) == e.trip = "1 of 1"

\* mutant: a made free throw ends the possession whatever its trip
FreeThrow_ends_AnyMade(events, i) == FreeThrow_is_made(events, i)

\* FreeThrow.is_possession_ending_event
FreeThrow_ends(events, i) ==
    FreeThrow_is_made(events, i) /\ ContainsOf1(events[i])

\* is_possession_ending_event of the event's class
is_possession_ending_event(events, i) ==
    LET e == events[i] IN
    CASE e.type \in {1, 2} -> FieldGoal_is_made(e)
      [] e.type = 3        -> FreeThrow_ends(events, i)
      [] e.type = 4        -> ~Rebound_oreb(events, i)
      [] e.type = 5        -> e.action # 0
      [] e.type \in {7, 10, 13} -> TRUE
      [] OTHER             -> FALSE

\* mutant: the possession is closed before the ending event is appended
ClosesAfter_Before(events, i) == i < Len(events) /\ is_possession_ending_event(events, i + 1)

\* the loop of _build_possessions closes the current possession after event i
ClosesAfter(events, i) == is_possession_ending_event(events, i)

\* _build_possessions: the possessions over events 1..i, the open one last
RECURSIVE BuildUpTo(_, _)
BuildUpTo(events, i) ==
    IF i = 0 THEN [closed |-> <<>>, current |-> <<>>]
    ELSE LET b   == BuildUpTo(events, i - 1)
             cur == Append(b.current, i)
         IN  IF ClosesAfter(events, i)
             THEN [closed |-> Append(b.closed, cur), current |-> <<>>]
             ELSE [closed |-> b.closed, current |-> cur]

build_possessions(events) ==
    LET b == BuildUpTo(events, Len(events))
    IN  IF b.current # <<>> THEN Append(b.closed, b.current) ELSE b.closed

\* a dict team_id -> list of player ids: its keys and the lists ([] off the keys)
Lineups(keys, pl) ==
    [ok |-> TRUE, keys |-> keys, pl |-> [t \in Teams |-> IF t \in keys THEN pl[t] ELSE <<>>]]

\* reading current_players failed: previous_event is None
NoLineups == [ok |-> FALSE, keys |-> {}, pl |-> [t \in Teams |-> <<>>]]

\* the starters of the boxscore rows with a START_POSITION
Starters == Lineups(Teams, [t \in Teams |-> IF t = 1 THEN <<1, 2, 3, 4, 5>>
                                            ELSE <<11, 12, 13, 14, 15>>])

\* [incoming if p == outgoing else p for p in players]
ReplacePlayer(players, out, in) ==
    [ k \in DOMAIN players |-> IF players[k] = out THEN in ELSE players[k] ]

\* the substitution applied to dict.get(team_id, [])
ApplySubstitution(m, e) ==
    Lineups(m.keys \cup {e.team},
            [m.pl EXCEPT ![e.team] = ReplacePlayer(@, e.out, e.in)])

\* parse_game_data: current_players of the tracker after event i
RECURSIVE TrackerAfter(_, _)
TrackerAfter(events, i) ==
    IF i = 0 THEN Starters
    ELSE IF events[i].type = 8
         THEN ApplySubstitution(TrackerAfter(events, i - 1), events[i])
         ELSE TrackerAfter(events, i - 1)

\* the current_players property of event i: StartOfPeriod returns its empty
\* period_starters, Substitution recomputes from previous_event, the other
\* classes return the snapshot
RECURSIVE current_players(_, _)
current_players(events, i) ==
    CASE events[i].type = 12 -> Lineups({}, Starters.pl)
      [] events[i].type = 8 ->
            IF i = 1 THEN NoLineups
            ELSE LET p == current_players(events, i - 1)
                 IN  IF p.ok THEN ApplySubstitution(p, events[i]) ELSE NoLineups
      [] OTHER -> TrackerAfter(events, i)

MaxEvents == 3

ParserKinds ==
    { "start", "end", "fgMade", "fgMiss", "ftMade1of1", "ftMade2of2",
      "ftMade1of2", "ftMiss2of2", "ftRaw1of1", "reb1", "reb2", "tov", "noTov",
      "foul", "violation", "jump", "subFresh1", "subOnCourt1", "subFresh2" }

ParserKindEvent(k) ==
    CASE k = "start"       -> PsEvent(12, 0, 0, 0, FALSE, FALSE, "", 0)
      [] k = "end"         -> PsEvent(13, 0, 0, 0, FALSE, FALSE, "", 0)
      [] k = "fgMade"      -> PsEvent(1, 1, 0, 0, FALSE, TRUE, "", 0)
      [] k = "fgMiss"      -> PsEvent(2, 1, 0, 0, TRUE, FALSE, "", 0)
      [] k = "ftMade1of1"  -> PsEvent(3, 1, 0, 0, FALSE, TRUE, "1 of 1", 0)
      [] k = "ftMade2of2"  -> PsEvent(3, 1, 0, 0, FALSE, TRUE, "2 of 2", 0)
      [] k = "ftMade1of2"  -> PsEvent(3, 1, 0, 0, FALSE, TRUE, "1 of 2", 0)
      [] k = "ftMiss2of2"  -> PsEvent(3, 1, 0, 0, TRUE, FALSE, "2 of 2", 0)
      [] k = "ftRaw1of1"   -> PsEvent(3, 1, 0, 0, FALSE, FALSE, "1 of 1", 0)
      [] k = "reb1"        -> PsEvent(4, 1, 0, 0, FALSE, FALSE, "", 0)
      [] k = "reb2"        -> PsEvent(4, 2, 0, 0, FALSE, FALSE, "", 0)
      [] k = "tov"         -> PsEvent(5, 1, 0, 0, FALSE, FALSE, "", 1)
      [] k = "noTov"       -> PsEvent(5, 1, 0, 0, FALSE, FALSE, "", 0)
      [] k = "foul"        -> PsEvent(6, 2, 0, 0, FALSE, FALSE, "", 0)
      [] k = "violation"   -> PsEvent(7, 2, 0, 0, FALSE, FALSE, "", 0)
      [] k = "jump"        -> PsEvent(10, 1, 0, 0, FALSE, FALSE, "", 0)
      [] k = "subFresh1"   -> PsEvent(8, 1, 1, 6, FALSE, FALSE, "", 0)
      [] k = "subOnCourt1" -> PsEvent(8, 1, 1, 2, FALSE, FALSE, "", 0)
      [] k = "subFresh2"   -> PsEvent(8, 2, 11, 16, FALSE, FALSE, "", 0)

ParserIdle ==
    /\ psEvents = <<>>
    /\ psOutcome = "idle"
    /\ psTracked = <<>>
    /\ psRead = <<>>
    /\ psEnding = <<>>
    /\ psPoss = <<>>

\* events of the given kinds: a StartOfPeriod after the first row opens the
\* next period
MkParserEvents(kinds) ==
    [ i \in 1..Len(kinds) |->
        [ParserKindEvent(kinds[i]) EXCEPT
            !.per = 1 + Cardinality({ j \in 2..i : kinds[j] = "start" })] ]

ParserInit ==
    /\ \E n \in 1..MaxEvents : \E k \in [1..n -> ParserKinds] :
          psEvents = MkParserEvents(k)
    /\ psOutcome = "ready"
    /\ psTracked = <<>>
    /\ psRead = <<>>
    /\ psEnding = <<>>
    /\ psPoss = <<>>

\* parse_game_data, and the properties of the events it returns as they read
\* afterwards
ParseGameData ==
    /\ psOutcome = "ready"
    /\ psOutcome' = "done"
    /\ psTracked' = [ i \in DOMAIN psEvents |-> TrackerAfter(psEvents, i) ]
    /\ psRead' = [ i \in DOMAIN psEvents |-> current_players(psEvents, i) ]
    /\ psEnding' = [ i \in DOMAIN psEvents |-> is_possession_ending_event(psEvents, i) ]
    /\ psPoss' = build_possessions(psEvents)
    /\ UNCHANGED psEvents

(***************************************************************************)
(* StatsNbaEnhancedPbpLoader._fix_order_when_technical_foul_before_period_start *)
(***************************************************************************)

\* a raw row: EVENTNUM, EVENTMSGTYPE, EVENTMSGACTIONTYPE, PERIOD
TechRow(num, type, action, per) ==
    [num |-> num, type |-> type, action |-> action, per |-> per]

technical_foul_event_msg_action_types == {11, 12, 13, 16, 18, 19, 25, 30}

IsTechnicalFoulRow(r) ==
    r.type = 6 /\ r.action \in technical_foul_event_msg_action_types

\* first loop: a technical foul listed while no StartOfPeriod row of its
\* period has been seen
reorder_events(rs) ==
    \E i \in DOMAIN rs :
        /\ IsTechnicalFoulRow(rs[i])
        /\ ~\E j \in 1..(i - 1) : rs[j].type = 12 /\ rs[j].per = rs[i].per

\* period_start_events[period]: the last StartOfPeriod row of the period
PeriodStartRow(rs, p) ==
    LET starts == { j \in DOMAIN rs : rs[j].type = 12 /\ rs[j].per = p }
    IN  IF starts = {} THEN <<>> ELSE <<rs[MaxOf(starts)]>>

\* period_events_without_period_start_event[period]
RowOfPeriodNotStart(r, p) == r.type # 12 /\ r.per = p

PeriodOtherRows(rs, p) ==
    LET Keep(r) == RowOfPeriodNotStart(r, p) IN SelectSeq(rs, Keep)

\* mutant: the rows of the period are emitted before its StartOfPeriod row
PeriodBlock_StartLast(rs, p) == PeriodOtherRows(rs, p) \o PeriodStartRow(rs, p)

\* the rows emitted for one period
PeriodBlock(rs, p) == PeriodStartRow(rs, p) \o PeriodOtherRows(rs, p)

\* the last period of range(1, 11)
LastHandledPeriod == 10

\* new_order_of_events over periods p..LastHandledPeriod
RECURSIVE NewOrderFrom(_, _)
NewOrderFrom(rs, p) ==
    IF p > LastHandledPeriod THEN <<>>
    ELSE PeriodBlock(rs, p) \o NewOrderFrom(rs, p + 1)

new_order_of_events(rs) == NewOrderFrom(rs, 1)

MaxTechRows == 3

TechKinds == { "start", "technical", "foul", "shot" }

TechPeriods == { 1, 2, LastHandledPeriod + 1 }

TechKindRow(k, n, p) ==
    CASE k = "start"     -> TechRow(n, 12, 0, p)
      [] k = "technical" -> TechRow(n, 6, 11, p)
      [] k = "foul"      -> TechRow(n, 6, 1, p)
      [] k = "shot"      -> TechRow(n, 2, 1, p)

TechIdle ==
    /\ tfRows = <<>>
    /\ tfOutcome = "idle"
    /\ tfOut = <<>>
    /\ tfSaved = FALSE

TechInit ==
    /\ \E n \in 1..MaxTechRows :
       \E k \in [1..n -> TechKinds], p \in [1..n -> TechPeriods] :
          tfRows = [ i \in 1..n |-> TechKindRow(k[i], i, p[i]) ]
    /\ tfOutcome = "ready"
    /\ tfOut = <<>>
    /\ tfSaved = FALSE

FixTechnicalFoulOrder ==
    /\ tfOutcome = "ready"
    /\ IF reorder_events(tfRows)
       THEN /\ tfOut' = new_order_of_events(tfRows)
            /\ tfOutcome' = "reordered"
            /\ tfSaved' = TRUE
       ELSE /\ tfOut' = tfRows
            /\ tfOutcome' = "unchanged"
            /\ tfSaved' = FALSE
    /\ UNCHANGED tfRows

(***************************************************************************)
(* StatsNbaPbpWebLoader._load_from_cdn and its helpers                     *)
(***************************************************************************)

\* A CDN action: actionType, subType, shotResult made, the (period, clock,
\* teamId) stamp as one value, personId, subOutPersonId, subInPersonId,
\* actionNumber, orderNumber, timeActual, edited.  0 stands for None.
CdnAction(type, sub, made, stamp, person, outId, inId, num, ord, ta, edited) ==
    [type |-> type, sub |-> sub, made |-> made, stamp |-> stamp,
     person |-> person, outId |-> outId, inId |-> inId, num |-> num,
     ord |-> ord, ta |-> ta, edited |-> edited]

\* (action.get("actionType") or "").lower() on the spellings of the feed
LowerActionType(t) ==
    CASE t = "Substitution"  -> "substitution"
      [] t = "Steal"         -> "steal"
      [] t = "InstantReplay" -> "instantreplay"
      [] OTHER               -> t

SupplementalTypes == {"steal", "block", "game", "edit", "stoppage_meta"}

\* mutant: every action is kept
include_cdn_action_all(a) == TRUE

\* _include_cdn_action
include_cdn_action(a) == LowerActionType(a.type) \notin SupplementalTypes

IsSubstitutionAction(a) == LowerActionType(a.type) = "substitution"

\* _sub_key
sub_key(a) == a.stamp

\* x or y on ids
OrElse(x, y) == IF x # 0 THEN x ELSE y

\* min of the values that are not None (None when both are)
MinNotNone(x, y) ==
    IF x = 0 THEN y ELSE IF y = 0 THEN x ELSE IF x < y THEN x ELSE y

\* _merge_sub_events
merge_sub_events(out_ev, in_ev) ==
    [out_ev EXCEPT
        !.type  = "substitution",
        !.sub   = "none",
        !.outId = OrElse(out_ev.outId, out_ev.person),
        !.inId  = OrElse(in_ev.inId, in_ev.person),
        !.stamp = OrElse(out_ev.stamp, in_ev.stamp),
        !.ta    = OrElse(out_ev.ta, in_ev.ta),
        !.ord   = MinNotNone(out_ev.ord, in_ev.ord),
        !.num   = MinNotNone(out_ev.num, in_ev.num)]

\* the inner while: the cluster that starts at i ends before the first
\* action that is no substitution or has another key
RECURSIVE ClusterEnd(_, _, _)
ClusterEnd(actions, i, j) ==
    IF /\ j <= Len(actions)
       /\ IsSubstitutionAction(actions[j])
       /\ sub_key(actions[j]) = sub_key(actions[i])
    THEN ClusterEnd(actions, i, j + 1)
    ELSE j

\* while pending_outs and pending_ins: merge the two heads
RECURSIVE DrainPending(_)
DrainPending(st) ==
    IF st.outs # <<>> /\ st.ins # <<>>
    THEN DrainPending([outs   |-> Tail(st.outs),
                       ins    |-> Tail(st.ins),
                       merged |-> Append(st.merged,
                                     merge_sub_events(Head(st.outs), Head(st.ins)))])
    ELSE st

\* mutant: the newest pending out is paired first
ClusterStep_NewestOutFirst(st, ev) ==
    IF ev.outId # 0 /\ ev.inId # 0
    THEN [st EXCEPT !.merged = Append(@, ev)]
    ELSE IF ev.sub = "out"
    THEN DrainPending([st EXCEPT !.outs = <<ev>> \o @])
    ELSE IF ev.sub = "in"
    THEN DrainPending([st EXCEPT !.ins = Append(@, ev)])
    ELSE DrainPending([st EXCEPT !.merged = Append(@, ev)])

\* the body of "for event in cluster"
ClusterStep(st, ev) ==
    IF ev.outId # 0 /\ ev.inId # 0
    THEN [st EXCEPT !.merged = Append(@, ev)]
    ELSE IF ev.sub = "out"
    THEN DrainPending([st EXCEPT !.outs = Append(@, ev)])
    ELSE IF ev.sub = "in"
    THEN DrainPending([st EXCEPT !.ins = Append(@, ev)])
    ELSE DrainPending([st EXCEPT !.merged = Append(@, ev)])

\* the for loop over actions[i..j-1]
RECURSIVE ClusterFold(_, _, _, _)
ClusterFold(actions, i, j, st) ==
    IF i >= j THEN st
    ELSE ClusterFold(actions, i + 1, j, ClusterStep(st, actions[i]))

\* merged_cluster with the halves left over appended, outs first
MergedCluster(actions, i, j) ==
    LET st == ClusterFold(actions, i, j, [outs |-> <<>>, ins |-> <<>>, merged |-> <<>>])
    IN  st.merged \o st.outs \o st.ins

\* _coalesce_substitution_pairs from index i on
RECURSIVE CoalesceFrom(_, _)
CoalesceFrom(actions, i) ==
    IF i > Len(actions) THEN <<>>
    ELSE IF ~IsSubstitutionAction(actions[i])
    THEN <<actions[i]>> \o CoalesceFrom(actions, i + 1)
    ELSE LET j == ClusterEnd(actions, i, i)
         IN  MergedCluster(actions, i, j) \o CoalesceFrom(actions, j)

coalesce_substitution_pairs(actions) == CoalesceFrom(actions, 1)

\* _action_sort_key: (int(orderNumber), int(actionNumber)), None read as 0
SortKeyLess(a, b) == a.ord < b.ord \/ (a.ord = b.ord /\ a.num < b.num)

\* place a behind every element of the sorted list that is not greater
RECURSIVE InsertSorted(_, _)
InsertSorted(sorted, a) ==
    IF sorted = <<>> THEN <<a>>
    ELSE IF SortKeyLess(a, Head(sorted)) THEN <<a>> \o sorted
    ELSE <<Head(sorted)>> \o InsertSorted(Tail(sorted), a)

\* list.sort(key=...): stable
RECURSIVE SortActions(_, _)
SortActions(actions, n) ==
    IF n = 0 THEN <<>>
    ELSE InsertSorted(SortActions(actions, n - 1), actions[n])

\* the key of _dedupe_actions
DedupeKey(a) == <<a.num, a.ta, a.ord>>

\* index_by_key[key], 0 when the key is new
IndexByKey(deduped, key) ==
    LET hits == { k \in DOMAIN deduped : DedupeKey(deduped[k]) = key }
    IN  IF hits = {} THEN 0 ELSE MinOf(hits)

\* mutant: an edited duplicate replaces whatever is there
DedupeStep_AnyEditedReplaces(deduped, a) ==
    LET idx == IndexByKey(deduped, DedupeKey(a))
    IN  IF idx = 0 THEN Append(deduped, a)
        ELSE IF a.edited THEN [deduped EXCEPT ![idx] = a]
        ELSE deduped

\* the body of the loop of _dedupe_actions
DedupeStep(deduped, a) ==
    LET idx == IndexByKey(deduped, DedupeKey(a))
    IN  IF idx = 0 THEN Append(deduped, a)
        ELSE IF a.edited /\ ~deduped[idx].edited THEN [deduped EXCEPT ![idx] = a]
        ELSE deduped

RECURSIVE DedupeUpTo(_, _)
DedupeUpTo(actions, n) ==
    IF n = 0 THEN <<>>
    ELSE DedupeStep(DedupeUpTo(actions, n - 1), actions[n])

dedupe_actions(actions) == DedupeUpTo(actions, Len(actions))

\* map_eventmsgtype, with the period/game retry of cdn_to_stats_row and
\* "evt_type or 0"
map_eventmsgtype(a) ==
    LET t == LowerActionType(a.type) IN
    CASE t \in {"2pt", "3pt", "heave"} -> IF a.made THEN 1 ELSE 2
      [] t \in {"period", "game"} ->
            IF a.sub = "start" THEN 12 ELSE IF a.sub = "end" THEN 13 ELSE 0
      [] t = "freethrow"     -> 3
      [] t = "rebound"       -> 4
      [] t = "turnover"      -> 5
      [] t = "foul"          -> 6
      [] t = "violation"     -> 7
      [] t = "substitution"  -> 8
      [] t = "timeout"       -> 9
      [] t = "jumpball"      -> 10
      [] t = "instantreplay" -> 18
      [] t = "stoppage"      -> 20
      [] OTHER               -> 0

SUPPORTED_EVENT_TYPES == {1, 2, 3, 4, 5, 6, 7, 8, 9, 10, 12, 13, 20}

\* cdn_to_stats_row: EVENTNUM, EVENTMSGTYPE and the player ids of the row
cdn_to_stats_row(a) ==
    [EVENTNUM |-> OrElse(a.num, a.ord), EVENTMSGTYPE |-> map_eventmsgtype(a),
     person |-> a.person]

RowSupported(r) == r.EVENTMSGTYPE \in SUPPORTED_EVENT_TYPES

\* the rows of the payload
PayloadRows(deduped) ==
    SelectSeq([ k \in DOMAIN deduped |-> cdn_to_stats_row(deduped[k]) ], RowSupported)

MaxActions == 4

CdnKinds ==
    { "out1", "in1", "in2", "paired1", "shot", "steal", "replay", "dup",
      "dupEdited" }

\* the action of kind k at position i of the feed; ord is its orderNumber.
\* The two "dup" kinds share one (actionNumber, timeActual, orderNumber).
CdnKindAction(k, i, ord) ==
    CASE k = "out1"      -> CdnAction("Substitution", "out", FALSE, 1, 100 + i, 0, 0, i, ord, 1, FALSE)
      [] k = "in1"       -> CdnAction("Substitution", "in", FALSE, 1, 100 + i, 0, 0, i, ord, 0, FALSE)
      [] k = "in2"       -> CdnAction("substitution", "in", FALSE, 2, 100 + i, 0, 0, i, ord, 1, FALSE)
      [] k = "paired1"   -> CdnAction("substitution", "out", FALSE, 1, 100 + i, 200 + i, 300 + i, i, ord, 1, FALSE)
      [] k = "shot"      -> CdnAction("2pt", "Layup", TRUE, 1, 100 + i, 0, 0, i, ord, 1, FALSE)
      [] k = "steal"     -> CdnAction("Steal", "", FALSE, 1, 100 + i, 0, 0, i, ord, 1, FALSE)
      [] k = "replay"    -> CdnAction("InstantReplay", "", FALSE, 1, 100 + i, 0, 0, i, ord, 1, FALSE)
      [] k = "dup"       -> CdnAction("2pt", "Layup", FALSE, 1, 100 + i, 0, 0, 9, 9, 1, FALSE)
      [] k = "dupEdited" -> CdnAction("2pt", "Layup", FALSE, 1, 100 + i, 0, 0, 9, 9, 1, TRUE)

CdnIdle ==
    /\ cdnActions = <<>>
    /\ cdnOutcome = "idle"
    /\ cdnIncluded = <<>>
    /\ cdnCoalesced = <<>>
    /\ cdnSorted = <<>>
    /\ cdnDeduped = <<>>
    /\ cdnRows = <<>>

\* a feed of up to MaxActions actions, listed in orderNumber order or in
\* reverse of it
CdnInit ==
    /\ \E n \in 1..MaxActions, rev \in BOOLEAN : \E k \in [1..n -> CdnKinds] :
          cdnActions = [ i \in 1..n |->
                           CdnKindAction(k[i], i, IF rev THEN n + 1 - i ELSE i) ]
    /\ cdnOutcome = "ready"
    /\ cdnIncluded = <<>>
    /\ cdnCoalesced = <<>>
    /\ cdnSorted = <<>>
    /\ cdnDeduped = <<>>
    /\ cdnRows = <<>>

\* _load_from_cdn
LoadFromCdn ==
    /\ cdnOutcome = "ready"
    /\ LET included  == SelectSeq(cdnActions, include_cdn_action)
           coalesced == coalesce_substitution_pairs(included)
           sorted    == SortActions(coalesced, Len(coalesced))
           deduped   == dedupe_actions(sorted)
       IN  /\ cdnIncluded' = included
           /\ cdnCoalesced' = coalesced
           /\ cdnSorted' = sorted
           /\ cdnDeduped' = deduped
           /\ cdnRows' = PayloadRows(deduped)
    /\ cdnOutcome' = "done"
    /\ UNCHANGED cdnActions

(***************************************************************************)
(* cdn_adapter.map_eventmsgactiontype                                      *)
(***************************************************************************)

\* None of an Optional[int]
NoneInt == -1

\* _canon on the spellings of the feed: lower case, no space, hyphen or
\* underscore
canon(v) ==
    CASE v = "Rebound"       -> "rebound"
      [] v = "Timeout"       -> "timeout"
      [] v = "JumpBall"      -> "jumpball"
      [] v = "Substitution"  -> "substitution"
      [] v = "Stoppage"      -> "stoppage"
      [] v = "Turnover"      -> "turnover"
      [] v = "Foul"          -> "foul"
      [] v = "Period"        -> "period"
      [] v = "Defensive"     -> "defensive"
      [] v = "Full"          -> "full"
      [] v = "Recovered"     -> "recovered"
      [] v = "Out"           -> "out"
      [] v = "Layup"         -> "layup"
      [] v = "Bad Pass"      -> "badpass"
      [] v = "Team"          -> "team"
      [] v = "Out of Bounds" -> "outofbounds"
      [] v = "StartPeriod"   -> "startperiod"
      [] v = "FreeThrow"     -> "freethrow"
      [] v = "Technical"     -> "technical"
      [] v = "Flagrant"      -> "flagrant"
      [] v \in {"1 of 1", "1-Of-1"} -> "1of1"
      [] v \in {"1 of 2", "1-Of-2"} -> "1of2"
      [] v \in {"2 of 2", "2-Of-2"} -> "2of2"
      [] v \in {"1 of 3", "1-Of-3"} -> "1of3"
      [] v \in {"2 of 3", "2-Of-3"} -> "2of3"
      [] v \in {"3 of 3", "3-Of-3"} -> "3of3"
      [] OTHER               -> v

\* dict.get of the subtype tables, on the keys that the inputs use
SHOT_MAP_get(k) == IF k = "layup" THEN 2 ELSE NoneInt

TOV_MAP_get(k) ==
    CASE k = "badpass" -> 1 [] k = "outofbounds" -> 15 [] OTHER -> NoneInt

FOUL_MAP_get(k) == IF k = "team" THEN 0 ELSE NoneInt

FT_MAP_get(k) ==
    CASE k = "1of1" -> 12 [] k = "1of2" -> 10 [] k = "2of2" -> 11
      [] k = "1of3" -> 13 [] k = "2of3" -> 14 [] k = "3of3" -> 15
      [] OTHER -> NoneInt

\* the code of a free throw without a trip label, from its descriptor
FtDescriptorCode(desc) ==
    IF desc = "technical" THEN 11 ELSE IF desc = "flagrant" THEN 12 ELSE NoneInt

\* x or y on Optional[int]: None and 0 are falsy
OrInt(x, y) == IF x # NoneInt /\ x # 0 THEN x ELSE y

\* the event code map_eventmsgtype gives the action type
MappedEventCode(t) ==
    CASE t = "freethrow"    -> 3
      [] t = "rebound"      -> 4
      [] t = "turnover"     -> 5
      [] t = "foul"         -> 6
      [] t = "substitution" -> 8
      [] t = "timeout"      -> 9
      [] t = "jumpball"     -> 10
      [] t = "period"       -> 12
      [] t = "stoppage"     -> 20
      [] t = "2pt"          -> 2
      [] OTHER              -> 0

\* the result of the subtype lookup of the evt_type branch: "return" with a
\* value, or "fall" through to the end of the function
SubcodeBranch(evt, st, desc) ==
    CASE evt \in {1, 2} ->
            LET r == OrInt(SHOT_MAP_get(st), SHOT_MAP_get(desc))
            IN  IF r # NoneInt THEN [ret |-> TRUE, val |-> r] ELSE [ret |-> FALSE, val |-> 0]
      [] evt = 3 ->
            LET r == OrInt(FT_MAP_get(st), FtDescriptorCode(desc))
            IN  IF r # NoneInt THEN [ret |-> TRUE, val |-> r] ELSE [ret |-> FALSE, val |-> 0]
      [] evt = 5 ->
            LET r == OrInt(TOV_MAP_get(st), TOV_MAP_get(desc))
            IN  IF r # NoneInt THEN [ret |-> TRUE, val |-> r] ELSE [ret |-> FALSE, val |-> 0]
      [] evt = 6 ->
            LET r == OrInt(FOUL_MAP_get(st), FOUL_MAP_get(desc))
            IN  IF r # NoneInt THEN [ret |-> TRUE, val |-> r] ELSE [ret |-> FALSE, val |-> 0]
      [] OTHER -> [ret |-> FALSE, val |-> 0]

\* the evt_type values that return 0 at once
NoSubcodeEventTypes == {4, 8, 9, 10}

\* map_eventmsgactiontype: the value returned and whether _warn_once is called
map_eventmsgactiontype(a, evt) ==
    LET t    == canon(a.type)
        st   == canon(a.sub)
        desc == canon(a.desc)
        b    == SubcodeBranch(evt, st, desc)
    IN  IF evt \in NoSubcodeEventTypes THEN [val |-> 0, warn |-> FALSE]
        ELSE IF b.ret THEN [val |-> b.val, warn |-> FALSE]
        ELSE IF t \in {"period", "game"} THEN [val |-> 0, warn |-> FALSE]
        ELSE IF evt # NoneInt THEN [val |-> 0, warn |-> TRUE]
        ELSE [val |-> NoneInt, warn |-> TRUE]

\* the key handed to _warn_once
WarnKey(a) == <<canon(a.type), canon(a.sub), canon(a.desc)>>

MaxAdapterCalls == 2

AdapterActions ==
    { [type |-> "Rebound", sub |-> "Defensive", desc |-> ""],
      [type |-> "Timeout", sub |-> "Full", desc |-> ""],
      [type |-> "JumpBall", sub |-> "Recovered", desc |-> "StartPeriod"],
      [type |-> "Substitution", sub |-> "Out", desc |-> ""],
      [type |-> "Stoppage", sub |-> "", desc |-> "Out of Bounds"],
      [type |-> "2pt", sub |-> "Layup", desc |-> ""],
      [type |-> "Turnover", sub |-> "Bad Pass", desc |-> ""],
      [type |-> "Foul", sub |-> "Team", desc |-> ""],
      [type |-> "Period", sub |-> "start", desc |-> ""] }

AdapterIdle ==
    /\ adAction = [type |-> "", sub |-> "", desc |-> ""]
    /\ adEvtType = NoneInt
    /\ adResult = NoneInt
    /\ adWarned = FALSE
    /\ adSeen = {}
    /\ adCalls = MaxAdapterCalls

AdapterInit ==
    /\ adAction = [type |-> "", sub |-> "", desc |-> ""]
    /\ adEvtType = NoneInt
    /\ adResult = NoneInt
    /\ adWarned = FALSE
    /\ adSeen = {}
    /\ adCalls = 0

\* one call, with evt_type the mapped event code or None; _warn_once logs a
\* key the first time it sees it
MapEventMsgActionType ==
    /\ adCalls < MaxAdapterCalls
    /\ \E a \in AdapterActions :
       \E evt \in {MappedEventCode(canon(a.type)), NoneInt} :
          LET r == map_eventmsgactiontype(a, evt)
          IN  /\ adAction' = a
              /\ adEvtType' = evt
              /\ adResult' = r.val
              /\ adWarned' = (r.warn /\ WarnKey(a) \notin adSeen)
              /\ adSeen' = IF r.warn THEN adSeen \cup {WarnKey(a)} ELSE adSeen
    /\ adCalls' = adCalls + 1

(***************************************************************************)
(* FreeThrow.is_made of nba_stats_parser and StatsFreeThrow.is_made        *)
(***************************************************************************)

\* A free throw row: what its description holds of "MISS" ("none", "MISS "
\* followed by a name, or a bare "MISS" that ends the text), whether it
\* holds " PTS)", its trip, its team; or the row after it.
FtEvent(type, team, missText, pts, trip) ==
    [type |-> type, team |-> team, out |-> 0, in |-> 0,
     miss |-> missText # "none", missText |-> missText, pts |-> pts,
     trip |-> trip, action |-> 0]

\* EVENTMSGACTIONTYPE of the trip
FtActionType(trip) ==
    CASE trip = "1 of 1" -> 10
      [] trip = "1 of 2" -> 11
      [] trip = "2 of 2" -> 12
      [] trip = "3 of 3" -> 15
      [] OTHER           -> 16

\* is_ft_1_of_1, is_ft_2_of_2, is_ft_3_of_3
is_ft_1_of_1(e) == FtActionType(e.trip) \in {10, 20}

is_ft_2_of_2(e) == FtActionType(e.trip) = 12

is_ft_3_of_3(e) == FtActionType(e.trip) = 15

\* FreeThrow.is_end_ft of the base class
is_end_ft(e) == is_ft_1_of_1(e) \/ is_ft_2_of_2(e) \/ is_ft_3_of_3(e)

\* " Technical" in self.description
is_technical_ft(e) == e.trip = "Technical"

\* mutant: the zero team ids are not set apart
StatsFreeThrow_is_made_NoZeroGuard(events, i) ==
    LET e == events[i] IN
    IF e.missText = "MISS " THEN FALSE
    ELSE IF e.pts THEN TRUE
    ELSE IF /\ (is_end_ft(e) \/ is_ft_1_of_1(e) \/ is_technical_ft(e))
            /\ i < Len(events)
            /\ events[i + 1].type = 4
            /\ events[i + 1].team # e.team
         THEN FALSE
         ELSE TRUE

\* StatsFreeThrow.is_made
StatsFreeThrow_is_made(events, i) ==
    LET e == events[i] IN
    IF e.missText = "MISS " THEN FALSE
    ELSE IF e.pts THEN TRUE
    ELSE IF /\ (is_end_ft(e) \/ is_ft_1_of_1(e) \/ is_technical_ft(e))
            /\ i < Len(events)
            /\ events[i + 1].type = 4
            /\ events[i + 1].team # 0 /\ e.team # 0
            /\ events[i + 1].team # e.team
         THEN FALSE
         ELSE TRUE

FtTrips == {"1 of 1", "1 of 2", "2 of 2", "3 of 3", "Technical"}

\* what follows the free throw: nothing, a rebound of team 1, of team 2, a
\* placeholder rebound of team 0, or a foul of team 2
FtFollowers ==
    { <<>>, <<FtEvent(4, 1, "none", FALSE, "")>>, <<FtEvent(4, 2, "none", FALSE, "")>>,
      <<FtEvent(4, 0, "none", FALSE, "")>>, <<FtEvent(6, 2, "none", FALSE, "")>> }

FtIdle ==
    /\ ftEvents = <<>>
    /\ ftOutcome = "idle"
    /\ ftParserMade = FALSE
    /\ ftStatsMade = FALSE

FtInit ==
    /\ \E m \in {"none", "MISS ", "MISS"}, pts \in BOOLEAN, trip \in FtTrips,
          team \in {0, 1}, follower \in FtFollowers :
          ftEvents = <<FtEvent(3, team, m, pts, trip)>> \o follower
    /\ ftOutcome = "ready"
    /\ ftParserMade = FALSE
    /\ ftStatsMade = FALSE

\* is_made is read on the free throw, once the events are linked
ReadIsMade ==
    /\ ftOutcome = "ready"
    /\ ftOutcome' = "done"
    /\ ftParserMade' = FreeThrow_is_made(ftEvents, 1)
    /\ ftStatsMade' = StatsFreeThrow_is_made(ftEvents, 1)
    /\ UNCHANGED ftEvents

(***************************************************************************)
(* Possessions._aggregate_event_stats                                      *)
(***************************************************************************)

\* one record of event_stats
StatRecord(player, team, key, value) ==
    [player_id |-> player, team_id |-> team, stat_key |-> key, stat_value |-> value]

\* an event: event_stats raises, or returns the list
AggEvent(raises, stats) == [raises |-> raises, stats |-> stats]

\* the stat keys emitted once per player on the floor
KEYS_OFF_BY_FACTOR_OF_5_WHEN_AGGREGATING_FOR_TEAM_AND_LINEUPS == {"OffPoss"}

\* for item in self.items: for event in item.events
RECURSIVE AllEvents(_)
AllEvents(items) ==
    IF items = <<>> THEN <<>> ELSE Head(items) \o AllEvents(Tail(items))

\* mutant: the first event whose event_stats raises ends the collection
CollectStats_StopAtError(events, n) ==
    LET firstBad == { k \in 1..n : events[k].raises }
        upTo     == IF firstBad = {} THEN n ELSE MinOf(firstBad) - 1
        RECURSIVE Take(_)
        Take(k) == IF k = 0 THEN <<>> ELSE Take(k - 1) \o events[k].stats
    IN  Take(upTo)

\* the stats list after the first n events: an event that raises is skipped
RECURSIVE CollectStats(_, _)
CollectStats(events, n) ==
    IF n = 0 THEN <<>>
    ELSE IF events[n].raises THEN CollectStats(events, n - 1)
    ELSE CollectStats(events, n - 1) \o events[n].stats

\* itemgetter(*args)
Grouper(args, r) == [ k \in DOMAIN args |-> r[args[k]] ]

\* the order of two values of a key field: ids as integers, stat keys as
\* strings
ValueLess(field, x, y) ==
    IF field = "stat_key" THEN x = "OffPoss" /\ y = "Points" ELSE x < y

\* tuple comparison of sorted(stats, key=grouper), from key field k on
RECURSIVE TupleLessFrom(_, _, _, _)
TupleLessFrom(args, a, b, k) ==
    IF k > Len(args) THEN FALSE
    ELSE IF a[args[k]] = b[args[k]] THEN TupleLessFrom(args, a, b, k + 1)
    ELSE ValueLess(args[k], a[args[k]], b[args[k]])

TupleLess(args, a, b) == TupleLessFrom(args, a, b, 1)

RECURSIVE InsertStat(_, _, _)
InsertStat(sorted, r, args) ==
    IF sorted = <<>> THEN <<r>>
    ELSE IF TupleLess(args, r, Head(sorted))
    THEN <<r>> \o sorted
    ELSE <<Head(sorted)>> \o InsertStat(Tail(sorted), r, args)

\* sorted(stats, key=grouper): stable
RECURSIVE SortStats(_, _, _)
SortStats(stats, n, args) ==
    IF n = 0 THEN <<>>
    ELSE InsertStat(SortStats(stats, n - 1, args), stats[n], args)

\* where the group that begins at index i of the sorted list ends
RECURSIVE GroupEnd(_, _, _, _)
GroupEnd(sorted, args, i, j) ==
    IF j <= Len(sorted) /\ Grouper(args, sorted[j]) = Grouper(args, sorted[i])
    THEN GroupEnd(sorted, args, i, j + 1)
    ELSE j

\* sum(item["stat_value"] for item in grp) over sorted[i..j-1]
RECURSIVE SumValues(_, _, _)
SumValues(sorted, i, j) ==
    IF i >= j THEN 0 ELSE sorted[i].stat_value + SumValues(sorted, i + 1, j)

\* mutant: the division does not look at the grouping keys
DividesBy5_AnyKeys(args, key) == key \in KEYS_OFF_BY_FACTOR_OF_5_WHEN_AGGREGATING_FOR_TEAM_AND_LINEUPS

\* the test that guards value / 5
DividesBy5(args, key) ==
    key \in KEYS_OFF_BY_FACTOR_OF_5_WHEN_AGGREGATING_FOR_TEAM_AND_LINEUPS /\ ~\E k \in DOMAIN args : args[k] = "player_id"

\* stat_value of a group in tenths: an int sum is kept, value / 5 is
\* rounded to one decimal (a fifth of an integer has one decimal)
GroupValueTenths(args, key, total) ==
    IF DividesBy5(args, key) THEN (total * 10) \div 5 ELSE total * 10

\* for key, grp in groupby(...): the records from index i of the sorted list
RECURSIVE GroupsFrom(_, _, _)
GroupsFrom(sorted, args, i) ==
    IF i > Len(sorted) THEN <<>>
    ELSE LET j == GroupEnd(sorted, args, i, i)
         IN  << [key    |-> Grouper(args, sorted[i]),
                 tenths |-> GroupValueTenths(args, sorted[i].stat_key,
                                             SumValues(sorted, i, j))] >>
             \o GroupsFrom(sorted, args, j)

\* _aggregate_event_stats
aggregate_event_stats(items, args) ==
    LET events == AllEvents(items)
        stats  == CollectStats(events, Len(events))
    IN  IF stats = <<>> THEN <<>>
        ELSE GroupsFrom(SortStats(stats, Len(stats), args), args, 1)

MaxAggEvents == 3

AggKinds == { "raises", "empty", "possTeam1", "pointsP1", "mixedTeam2" }

AggKindEvent(k) ==
    CASE k = "raises"     -> AggEvent(TRUE, <<>>)
      [] k = "empty"      -> AggEvent(FALSE, <<>>)
      [] k = "possTeam1"  -> AggEvent(FALSE, << StatRecord(1, 1, "OffPoss", 1),
                                               StatRecord(2, 1, "OffPoss", 1) >>)
      [] k = "pointsP1"   -> AggEvent(FALSE, << StatRecord(1, 1, "Points", 2) >>)
      [] k = "mixedTeam2" -> AggEvent(FALSE, << StatRecord(3, 2, "Points", 3),
                                               StatRecord(3, 2, "OffPoss", 1) >>)

\* team_stats and player_stats
AggArgChoices ==
    { <<"team_id", "stat_key">>, <<"player_id", "team_id", "stat_key">> }

AggIdle ==
    /\ agItems = <<>>
    /\ agArgs = <<>>
    /\ agOutcome = "idle"
    /\ agResult = <<>>
    /\ agWarnings = 0

\* up to MaxAggEvents events, spread over two possessions
AggInit ==
    /\ \E n \in 1..MaxAggEvents : \E k \in [1..n -> AggKinds], split \in 0..n :
          agItems = << [ i \in 1..split |-> AggKindEvent(k[i]) ],
                       [ i \in 1..(n - split) |-> AggKindEvent(k[split + i]) ] >>
    /\ agArgs \in AggArgChoices
    /\ agOutcome = "ready"
    /\ agResult = <<>>
    /\ agWarnings = 0

AggregateEventStats ==
    /\ agOutcome = "ready"
    /\ agOutcome' = "done"
    /\ agResult' = aggregate_event_stats(agItems, agArgs)
    /\ agWarnings' = Cardinality({ k \in DOMAIN AllEvents(agItems) :
                                     AllEvents(agItems)[k].raises })
    /\ UNCHANGED <<agItems, agArgs>>

(***************************************************************************)
(* Possession.possession_start_type                                        *)
(***************************************************************************)

OFF_DEADBALL_STRING == <<"OffDeadball">>

OFF_TIMEOUT_STRING == <<"OffTimeout">>

OFF_LIVE_BALL_TURNOVER_STRING == <<"OffLiveBallTurnover">>

\* f"Off{shot_type}{suffix}"
OffShot(shot_type, suffix) == <<"Off", shot_type, suffix>>

\* an event of the previous possession, with the attributes the start type reads
StartEvent(cls, made, shot, steal, pid, blocked, hasP2) ==
    [cls |-> cls, is_made |-> made, shot_type |-> shot, is_steal |-> steal,
     player1_id |-> pid, is_blocked |-> blocked, has_player2_id |-> hasP2]

\* the index reached by the while loop of previous_possession_ending_event
RECURSIVE EndingIndexFrom(_, _)
EndingIndexFrom(events, back) ==
    IF events[Len(events) + 1 - back].cls = "Substitution" /\ Len(events) > back
    THEN EndingIndexFrom(events, back + 1)
    ELSE Len(events) + 1 - back

\* previous_possession_ending_event: the last event, ignoring subs
previous_possession_ending_event(events) == events[EndingIndexFrom(events, 1)]

\* the JumpBall branch
JumpBallStartType(e) ==
    IF ~e.has_player2_id THEN OFF_LIVE_BALL_TURNOVER_STRING ELSE OFF_DEADBALL_STRING

\* mutant: the timeout is looked at before the possession number
possession_start_type_TimeoutFirst(number, timeout, events) ==
    IF timeout THEN OFF_TIMEOUT_STRING
    ELSE IF number = 1 THEN OFF_DEADBALL_STRING
    ELSE LET e == previous_possession_ending_event(events)
         IN  IF e.cls \in {"FieldGoal", "FreeThrow"} /\ e.is_made
             THEN OffShot(e.shot_type, "Make")
             ELSE OFF_DEADBALL_STRING

\* possession_start_type
possession_start_type(number, timeout, events) ==
    IF number = 1 THEN OFF_DEADBALL_STRING
    ELSE IF timeout THEN OFF_TIMEOUT_STRING
    ELSE LET e == previous_possession_ending_event(events)
         IN  IF e.cls \in {"FieldGoal", "FreeThrow"} /\ e.is_made
             THEN OffShot(e.shot_type, "Make")
             ELSE IF e.cls = "Turnover"
             THEN (IF e.is_steal THEN OFF_LIVE_BALL_TURNOVER_STRING
                   ELSE OFF_DEADBALL_STRING)
             ELSE IF e.cls = "Rebound"
             THEN (IF e.player1_id = 0 THEN OFF_DEADBALL_STRING
                   ELSE IF e.is_blocked THEN OffShot(e.shot_type, "Block")
                   ELSE OffShot(e.shot_type, "Miss"))
             ELSE IF e.cls = "JumpBall" THEN JumpBallStartType(e)
             ELSE OFF_DEADBALL_STRING

MaxPrevEvents == 3

StartKinds ==
    { "sub", "madeFg", "madeFt", "steal", "deadTurnover", "teamRebound",
      "rebound", "blockRebound", "jumpBall", "jumpBallOutOfBounds", "foul" }

StartKindEvent(k) ==
    CASE k = "sub"          -> StartEvent("Substitution", FALSE, "", FALSE, 1, FALSE, TRUE)
      [] k = "madeFg"       -> StartEvent("FieldGoal", TRUE, "Arc3", FALSE, 1, FALSE, TRUE)
      [] k = "madeFt"       -> StartEvent("FreeThrow", TRUE, "FT", FALSE, 1, FALSE, FALSE)
      [] k = "steal"        -> StartEvent("Turnover", FALSE, "", TRUE, 1, FALSE, TRUE)
      [] k = "deadTurnover" -> StartEvent("Turnover", FALSE, "", FALSE, 1, FALSE, FALSE)
      [] k = "teamRebound"  -> StartEvent("Rebound", FALSE, "AtRim", FALSE, 0, FALSE, FALSE)
      [] k = "rebound"      -> StartEvent("Rebound", FALSE, "AtRim", FALSE, 2, FALSE, FALSE)
      [] k = "blockRebound" -> StartEvent("Rebound", FALSE, "AtRim", FALSE, 2, TRUE, FALSE)
      [] k = "jumpBall"     -> StartEvent("JumpBall", FALSE, "", FALSE, 1, FALSE, TRUE)
      [] k = "jumpBallOutOfBounds"
                            -> StartEvent("JumpBall", FALSE, "", FALSE, 1, FALSE, FALSE)
      [] k = "foul"         -> StartEvent("Foul", FALSE, "", FALSE, 1, FALSE, TRUE)

StartIdle ==
    /\ stPrevEvents = <<>>
    /\ stNumber = 0
    /\ stTimeout = FALSE
    /\ stOutcome = "idle"
    /\ stStartType = <<>>

\* the first possession has no previous possession
StartInit ==
    /\ \/ stNumber = 1 /\ stPrevEvents = <<>>
       \/ /\ stNumber = 2
          /\ \E n \in 1..MaxPrevEvents : \E k \in [1..n -> StartKinds] :
                stPrevEvents = [ i \in 1..n |-> StartKindEvent(k[i]) ]
    /\ stTimeout \in BOOLEAN
    /\ stOutcome = "ready"
    /\ stStartType = <<>>

ReadPossessionStartType ==
    /\ stOutcome = "ready"
    /\ stOutcome' = "done"
    /\ stStartType' = possession_start_type(stNumber, stTimeout, stPrevEvents)
    /\ UNCHANGED <<stPrevEvents, stNumber, stTimeout>>

(***************************************************************************)
(* The orphan-rebound fallback on row lists longer than its scan           *)
(***************************************************************************)

\* rows after the reported row
MaxFallbackTail == 11

\* lead fouls, the reported foul, then tail rows: fouls, with a team
\* rebound dT rows and a player rebound dP rows after the reported row
\* (0: none) and the rows from dB rows after it on in period 2 (0: none);
\* EVENTNUMs ascend
FallbackRows(lead, tail, dT, dP, dB) ==
    [ i \in 1..(lead + 1 + tail) |->
        LET d == i - (lead + 1)
            r == IF d >= 1 /\ d = dT THEN Row(4, 0, 1, "", FALSE, FALSE)
                 ELSE IF d >= 1 /\ d = dP THEN Row(4, 202, 1, "", FALSE, FALSE)
                 ELSE Row(6, 203, 2, "", FALSE, FALSE)
        IN  [r EXCEPT !.num = i,
                      !.per = IF dB >= 1 /\ d >= dB THEN 2 ELSE 1] ]

FallbackIdle ==
    /\ fbMode = "idle"
    /\ fbRows = <<>>
    /\ fbEvent = 0
    /\ fbStrict = TRUE
    /\ fbOutcome = "idle"
    /\ fbResult = FixResult(<<>>, "", <<>>, <<>>, "none")

FallbackInit ==
    /\ \E lead \in 0..1, tail \in 1..MaxFallbackTail :
       \E dT \in 0..tail, dP \in 0..tail, dB \in 0..tail :
          /\ dT = 0 \/ dT /= dP
          /\ fbRows = FallbackRows(lead, tail, dT, dP, dB)
          /\ fbEvent = lead + 1
    /\ fbMode \in {"proc", "loader"}
    /\ fbStrict \in BOOLEAN
    /\ fbOutcome = "ready"
    /\ fbResult = FixResult(<<>>, "", <<>>, <<>>, "none")

\* rows for single calls of the fix routines on the repair patterns
MaxPatternRows == 4

PatternKinds == {"miss", "rebPlayer", "foul", "sub", "ft"}

\* a missed last free throw of a trip, or the row of KindRow
PatternKindRow(k, n) ==
    IF k = "ft" THEN Row(3, 201, 1, "miss", TRUE, FALSE) ELSE KindRow(k, n)

\* EVENTNUMs in row order except within three neighbouring rows
PatternOrders(n) ==
    { pm \in Permutations(1..n) :
        \E w \in 1..n : \A i \in 1..n : (i < w \/ i > w + 2) => pm[i] = i }

MkPatternRows(kinds, perm) ==
    [ i \in 1..Len(kinds) |-> [PatternKindRow(kinds[i], perm[i]) EXCEPT !.num = perm[i]] ]

\* row lists in which a rebound fails the probe; the event reported is the
\* one the EventOrderError of that rebound names
PatternInit ==
    /\ \E n \in 1..MaxPatternRows :
       \E k \in [1..n -> PatternKinds], pm \in PatternOrders(n) :
          LET rs == MkPatternRows(k, pm)
          IN  /\ ProbeFails(rs) /= 0
              /\ IssueEventNum(rs, ProbeFails(rs)) /= 0
              /\ fbRows = rs
              /\ fbEvent = IssueEventNum(rs, ProbeFails(rs))
    /\ fbMode \in {"proc", "loader"}
    /\ fbStrict = TRUE
    /\ fbOutcome = "ready"
    /\ fbResult = FixResult(<<>>, "", <<>>, <<>>, "none")

\* one call of PbpProcessor._fix_event_order
FixEventOrder ==
    /\ fbMode = "proc"
    /\ fbOutcome = "ready"
    /\ fbOutcome' = "done"
    /\ fbResult' = fix_event_order(fbRows, fbEvent, fbStrict)
    /\ UNCHANGED <<fbMode, fbRows, fbEvent, fbStrict>>

\* one call of StatsNbaEnhancedPbpLoader._fix_common_event_order_error
FixCommonEventOrderError ==
    /\ fbMode = "loader"
    /\ fbOutcome = "ready"
    /\ fbOutcome' = "done"
    /\ fbResult' = fix_common_event_order_error(fbRows, fbEvent)
    /\ UNCHANGED <<fbMode, fbRows, fbEvent, fbStrict>>

\* rows for single calls of the fix routines when the rowSet of the loader
\* may hold an EVENTNUM more than once; the rows of the processor have been
\* through drop_duplicates and hold each EVENTNUM once
MaxDupRows == 4

DupInit ==
    /\ \/ /\ fbMode = "loader"
          /\ \E n \in 1..MaxDupRows :
             \E k \in [1..n -> PatternKinds], nums \in [1..n -> 1..n] :
                LET rs == MkPatternRows(k, nums)
                IN  /\ ProbeFails(rs) /= 0
                    /\ IssueEventNum(rs, ProbeFails(rs)) /= 0
                    /\ fbRows = rs
                    /\ fbEvent = IssueEventNum(rs, ProbeFails(rs))
       \/ /\ fbMode = "proc"
          /\ \E n \in 1..MaxDupRows :
             \E k \in [1..n -> PatternKinds], pm \in PatternOrders(n) :
                LET rs == MkPatternRows(k, pm)
                IN  /\ ProbeFails(rs) /= 0
                    /\ IssueEventNum(rs, ProbeFails(rs)) /= 0
                    /\ fbRows = rs
                    /\ fbEvent = IssueEventNum(rs, ProbeFails(rs))
    /\ fbStrict = TRUE
    /\ fbOutcome = "ready"
    /\ fbResult = FixResult(<<>>, "", <<>>, <<>>, "none")

(***************************************************************************)
(* One call of _use_stats_nba_v3_event_order                               *)
(***************************************************************************)

MaxV3Rows == 3

\* the EVENTNUMs and action numbers in play
V3Nums == {1, 2, 3, 4}

\* rows with the given EVENTNUMs; PLAYER1_ID tells rows of one EVENTNUM apart
V3MkRows(nums) ==
    [ i \in 1..Len(nums) |->
        [Row(6, 200 + i, 1, "", FALSE, FALSE) EXCEPT !.num = nums[i]] ]

V3Idle ==
    /\ v3Rows = <<>>
    /\ v3Oracle = <<>>
    /\ v3Outcome = "idle"
    /\ v3Out = <<>>

V3Init ==
    /\ \E n \in 1..MaxV3Rows, m \in 0..MaxV3Rows :
       \E nums \in [1..n -> V3Nums], orc \in [1..m -> V3Nums] :
          /\ v3Rows = V3MkRows(nums)
          /\ v3Oracle = orc
    /\ v3Outcome = "ready"
    /\ v3Out = <<>>

UseStatsNbaV3EventOrder ==
    /\ v3Outcome = "ready"
    /\ v3Outcome' = "done"
    /\ v3Out' = use_stats_nba_v3_event_order(v3Rows, v3Oracle)
    /\ UNCHANGED <<v3Rows, v3Oracle>>

(***************************************************************************)
(* _add_extra_attrs_to_all_events item by item: which statements bind the  *)
(* accumulators to new dictionaries and which change a dictionary in place *)
(***************************************************************************)

\* player1_id of the fouls of a team
FoulPlayer(team) == 10 * team + 1

Players == { FoulPlayer(t) : t \in Teams }

\* an item with counts_as_personal_foul and player1_id
CopyItem(base, personal) ==
    [type |-> base.type, per |-> base.per, sec |-> base.sec, team |-> base.team,
     made |-> base.made, value |-> base.value, penalty |-> base.penalty,
     personal |-> personal, player |-> FoulPlayer(base.team)]

\* mutant: the attached dictionary is the accumulator itself
DictAlias(heap, r) == [heap |-> heap, ref |-> r]

\* dict.copy(): a new object with the same contents
DictCopy(heap, r) == [heap |-> Append(heap, heap[r]), ref |-> Len(heap) + 1]

\* the period-start branch binds fouls_to_give to a new defaultdict
BindAtPeriodStart(items, i, heap, r) ==
    IF Len(items) > 1 /\ (IsStartOfPeriod(items[i]) \/ i = 1)
    THEN [heap |-> Append(heap, FoulsAtPeriodStart(items, i, heap[r])),
          ref |-> Len(heap) + 1]
    ELSE [heap |-> heap, ref |-> r]

\* the two-minute rule binds fouls_to_give to a new defaultdict while at
\* most one team has a key, and writes into the dictionary otherwise
BindAtTwoMinutes(items, i, heap, r) ==
    IF items[i].sec > TwoMinutes THEN [heap |-> heap, ref |-> r]
    ELSE IF Cardinality(heap[r].keys) <= 1
    THEN [heap |-> Append(heap, FoulsClamped(items, i, heap[r])),
          ref |-> Len(heap) + 1]
    ELSE [heap |-> [heap EXCEPT ![r] = FoulsClamped(items, i, @)], ref |-> r]

\* player_game_fouls after the item
PlayerFoulsAfter(items, i, pf) ==
    IF items[i].type = 6 /\ items[i].personal
    THEN [pf EXCEPT ![items[i].player] = @ + 1]
    ELSE pf

\* the statements of the loop body that write into the bound dictionaries
WriteInPlace(items, i, heap, acc) ==
    [heap EXCEPT ![acc.fouls] = FoulsAfterFoul(items, i, @),
                 ![acc.pfouls] = PlayerFoulsAfter(items, i, @),
                 ![acc.score] = ScoreAfter(items, i, @)]

\* one pass of the loop body over item i
LoopBody(items, i, heap, acc) ==
    LET b1 == BindAtPeriodStart(items, i, heap, acc.fouls)
        b2 == BindAtTwoMinutes(items, i, b1.heap, b1.ref)
        a2 == [acc EXCEPT !.fouls = b2.ref]
        h3 == WriteInPlace(items, i, b2.heap, a2)
        c1 == DictCopy(h3, a2.fouls)
        c2 == DictCopy(c1.heap, a2.pfouls)
        c3 == DictCopy(c2.heap, a2.score)
    IN  [heap |-> c3.heap, acc |-> a2,
         attached |-> [fouls |-> c1.ref, pfouls |-> c2.ref, score |-> c3.ref]]

MaxCopyLen == 3

CopyKinds ==
    { "fgMade2", "foulPen1", "foulPen2", "foulOff1", "start" }

CopyKindItem(k) ==
    CASE k = "foulOff1" -> CopyItem(AttrKindItem("foulOther1"), TRUE)
      [] k \in {"foulPen1", "foulPen2"} -> CopyItem(AttrKindItem(k), TRUE)
      [] OTHER -> CopyItem(AttrKindItem(k), FALSE)

\* items of the given kinds: a "start" after the first opens the next
\* period; late[i] puts item i inside the last two minutes
MkCopyItems(kinds, late, firstPeriod) ==
    [ i \in 1..Len(kinds) |->
        [CopyKindItem(kinds[i]) EXCEPT
            !.per = firstPeriod + Cardinality({ j \in 2..i : kinds[j] = "start" }),
            !.sec = IF late[i] THEN 100 ELSE 300] ]

CopyIdle ==
    /\ cpItems = <<>>
    /\ cpPos = 0
    /\ cpOutcome = "idle"
    /\ cpHeap = <<>>
    /\ cpAcc = <<>>
    /\ cpAttached = <<>>
    /\ cpSeen = <<>>

\* the three accumulators as the method creates them before the loop
CopyInit ==
    /\ \E n \in 1..MaxCopyLen, firstPeriod \in {1, 4} :
       \E k \in [1..n -> CopyKinds], late \in [1..n -> BOOLEAN] :
          cpItems = MkCopyItems(k, late, firstPeriod)
    /\ cpPos = 0
    /\ cpOutcome = "running"
    /\ cpHeap = << FoulsDict({}, [t \in Teams |-> 0], 4),
                   [p \in Players |-> 0],
                   [t \in Teams |-> 0] >>
    /\ cpAcc = [fouls |-> 1, pfouls |-> 2, score |-> 3]
    /\ cpAttached = <<>>
    /\ cpSeen = <<>>

\* the loop body runs on the next item; reading self.items[i + 1] at a
\* StartOfPeriod in last position of several items raises IndexError
AddExtraAttrsToItem ==
    /\ cpOutcome = "running"
    /\ LET i == cpPos + 1
       IN  IF LinkFailsAt(cpItems) = i
           THEN /\ cpOutcome' = "IndexError"
                /\ UNCHANGED <<cpPos, cpHeap, cpAcc, cpAttached, cpSeen>>
           ELSE LET r == LoopBody(cpItems, i, cpHeap, cpAcc)
                IN  /\ cpPos' = i
                    /\ cpOutcome' = IF i = Len(cpItems) THEN "done" ELSE "running"
                    /\ cpHeap' = r.heap
                    /\ cpAcc' = r.acc
                    /\ cpAttached' = Append(cpAttached, r.attached)
                    /\ cpSeen' = Append(cpSeen,
                                   [fouls |-> r.heap[r.attached.fouls],
                                    pfouls |-> r.heap[r.attached.pfouls],
                                    score |-> r.heap[r.attached.score]])
    /\ UNCHANGED cpItems

(***************************************************************************)
(* StatsStartOfPeriod._get_period_starters_from_boxscore_loader            *)
(***************************************************************************)

\* a player item of the boxscore: team_id (0: missing), start_position, player_id
BoxPlayer(team, pos, id) == [team_id |-> team, start_position |-> pos, player_id |-> id]

\* str(start_pos).strip() on the start positions in play
StripPosition(pos) == IF pos = " " THEN "" ELSE pos

\* the players the loop appends to starters_by_team
BoxStarterRows(players) ==
    { i \in DOMAIN players :
        /\ players[i].team_id /= 0
        /\ StripPosition(players[i].start_position) /= "" }

\* starters_by_team[team]: the player ids in boxscore order
RECURSIVE BoxStartersOf(_, _, _)
BoxStartersOf(players, team, n) ==
    IF n = 0 THEN <<>>
    ELSE LET rest == BoxStartersOf(players, team, n - 1)
         IN  IF n \in BoxStarterRows(players) /\ players[n].team_id = team
             THEN Append(rest, players[n].player_id)
             ELSE rest

\* the return value None
BoxNone == [none |-> TRUE, starters |-> <<>>]

\* _get_period_starters_from_boxscore_loader
get_period_starters_from_boxscore_loader(loader, period, players) ==
    IF loader /= "ok" THEN BoxNone
    ELSE IF period = 1
    THEN LET keys == { players[i].team_id : i \in BoxStarterRows(players) }
         IN  IF keys = {} THEN BoxNone
             ELSE IF \E t \in keys : Len(BoxStartersOf(players, t, Len(players))) /= 5
             THEN BoxNone
             ELSE [none |-> FALSE,
                   starters |-> [ t \in keys |-> BoxStartersOf(players, t, Len(players)) ]]
    ELSE BoxNone

MaxBoxStarters == 6

\* a boxscore with s1 and s2 starters and b1 and b2 other players of the two
\* teams, and x players without a team_id
MkBoxPlayers(s1, b1, s2, b2, x) ==
    [ i \in 1..s1 |-> BoxPlayer(1, "G", 100 + i) ]
      \o [ i \in 1..b1 |-> BoxPlayer(1, IF i = 1 THEN "" ELSE " ", 150 + i) ]
      \o [ i \in 1..s2 |-> BoxPlayer(2, "F", 200 + i) ]
      \o [ i \in 1..b2 |-> BoxPlayer(2, "", 250 + i) ]
      \o [ i \in 1..x |-> BoxPlayer(0, "C", 300 + i) ]

BoxIdle ==
    /\ bxLoader = "none"
    /\ bxPeriod = 0
    /\ bxPlayers = <<>>
    /\ bxOutcome = "idle"
    /\ bxResult = BoxNone

BoxInit ==
    /\ bxLoader \in {"none", "raises", "ok"}
    /\ bxPeriod \in {1, 2}
    /\ \E s1, s2 \in 0..MaxBoxStarters, b1 \in 0..2, b2, x \in 0..1 :
          bxPlayers = MkBoxPlayers(s1, b1, s2, b2, x)
    /\ bxOutcome = "ready"
    /\ bxResult = BoxNone

GetPeriodStartersFromBoxscoreLoader ==
    /\ bxOutcome = "ready"
    /\ bxOutcome' = "done"
    /\ bxResult' = get_period_starters_from_boxscore_loader(bxLoader, bxPeriod, bxPlayers)
    /\ UNCHANGED <<bxLoader, bxPeriod, bxPlayers>>

(***************************************************************************)
(* A free throw from cdn_to_stats_row to the is_ft_x_of_y properties       *)
(***************************************************************************)

\* the trip positions StatsFreeThrow tells apart
TripPositions == {"1of1", "1of2", "2of2", "1of3", "2of3", "3of3"}

\* is_ft_1_of_1 ... is_ft_3_of_3 on event_action_type
IsFtPosition(pos, action) ==
    CASE pos = "1of1" -> action = 10 \/ action = 20
      [] pos = "1of2" -> action = 11
      [] pos = "2of2" -> action = 12
      [] pos = "1of3" -> action = 13 \/ action = 27
      [] pos = "2of3" -> action = 14
      [] pos = "3of3" -> action = 15

\* EVENTMSGACTIONTYPE of the row of cdn_to_stats_row: evtmsgactiontype or 0
RowActionType(a) ==
    LET r == map_eventmsgactiontype(a, MappedEventCode(canon(a.type)))
    IN  IF r.val = NoneInt THEN 0 ELSE r.val

\* the spellings of the subType in play
TripSubTypes ==
    TripPositions
      \cup { "1 of 1", "1 of 2", "2 of 2", "1 of 3", "2 of 3", "3 of 3" }
      \cup { "1-Of-1", "1-Of-2", "2-Of-2", "1-Of-3", "2-Of-3", "3-Of-3" }
      \cup { "" }

TripIdle ==
    /\ tpAction = [type |-> "", sub |-> "", desc |-> "", shotResult |-> ""]
    /\ tpOutcome = "idle"
    /\ tpCode = 0
    /\ tpClasses = {}

TripInit ==
    /\ \E st \in TripSubTypes, d \in {"", "Technical", "Flagrant"},
          res \in {"Made", "Missed"} :
          tpAction = [type |-> "FreeThrow", sub |-> st, desc |-> d, shotResult |-> res]
    /\ tpOutcome = "ready"
    /\ tpCode = 0
    /\ tpClasses = {}

\* the row is built and StatsFreeThrow reads its EVENTMSGACTIONTYPE
NormalizeFreeThrow ==
    /\ tpOutcome = "ready"
    /\ tpOutcome' = "done"
    /\ tpCode' = RowActionType(tpAction)
    /\ tpClasses' = { pos \in TripPositions : IsFtPosition(pos, RowActionType(tpAction)) }
    /\ UNCHANGED tpAction

(***************************************************************************)
(* Specifications                                                          *)
(***************************************************************************)

ProbeInit ==
    /\ pItems \in ProbeInputs
    /\ pIdx = 0
    /\ pRes = "unprobed"
    /\ pLink = 0

ProbeNext == Probe /\ UNCHANGED <<repairVars, scVars, attrVars, parserVars, techVars, cdnVars, adapterVars, ftVars, aggVars, startVars, fallbackVars, v3Vars, copyVars, boxVars, tripVars>>

InitProbe == ProbeInit /\ RepairIdle /\ ScIdle /\ AttrIdle /\ ParserIdle /\ TechIdle /\ CdnIdle /\ AdapterIdle /\ FtIdle /\ AggIdle /\ StartIdle /\ FallbackIdle /\ V3Idle /\ CopyIdle /\ BoxIdle /\ TripIdle

SpecProbe == InitProbe /\ [][ProbeNext]_vars

RepairNext ==
    \/ LoaderPass /\ UNCHANGED <<probeVars, scVars, attrVars, parserVars, techVars, cdnVars, adapterVars, ftVars, aggVars, startVars, fallbackVars, v3Vars, copyVars, boxVars, tripVars>>
    \/ LoaderRepair /\ UNCHANGED <<probeVars, scVars, attrVars, parserVars, techVars, cdnVars, adapterVars, ftVars, aggVars, startVars, fallbackVars, v3Vars, copyVars, boxVars, tripVars>>
    \/ LoaderV3 /\ UNCHANGED <<probeVars, scVars, attrVars, parserVars, techVars, cdnVars, adapterVars, ftVars, aggVars, startVars, fallbackVars, v3Vars, copyVars, boxVars, tripVars>>
    \/ ProcPass /\ UNCHANGED <<probeVars, scVars, attrVars, parserVars, techVars, cdnVars, adapterVars, ftVars, aggVars, startVars, fallbackVars, v3Vars, copyVars, boxVars, tripVars>>
    \/ ProcHandleError /\ UNCHANGED <<probeVars, scVars, attrVars, parserVars, techVars, cdnVars, adapterVars, ftVars, aggVars, startVars, fallbackVars, v3Vars, copyVars, boxVars, tripVars>>

InitRepair == RepairInit /\ ProbeIdle /\ ScIdle /\ AttrIdle /\ ParserIdle /\ TechIdle /\ CdnIdle /\ AdapterIdle /\ FtIdle /\ AggIdle /\ StartIdle /\ FallbackIdle /\ V3Idle /\ CopyIdle /\ BoxIdle /\ TripIdle

SpecRepair == InitRepair /\ [][RepairNext]_vars

ShotClockNext == AnnotateShotClock /\ UNCHANGED <<probeVars, repairVars, attrVars, parserVars, techVars, cdnVars, adapterVars, ftVars, aggVars, startVars, fallbackVars, v3Vars, copyVars, boxVars, tripVars>>

InitShotClock == ScInit /\ ProbeIdle /\ RepairIdle /\ AttrIdle /\ ParserIdle /\ TechIdle /\ CdnIdle /\ AdapterIdle /\ FtIdle /\ AggIdle /\ StartIdle /\ FallbackIdle /\ V3Idle /\ CopyIdle /\ BoxIdle /\ TripIdle

SpecShotClock == InitShotClock /\ [][ShotClockNext]_vars

InitShotRules == ScRuleInit /\ ProbeIdle /\ RepairIdle /\ AttrIdle /\ ParserIdle /\ TechIdle /\ CdnIdle /\ AdapterIdle /\ FtIdle /\ AggIdle /\ StartIdle /\ FallbackIdle /\ V3Idle /\ CopyIdle /\ BoxIdle /\ TripIdle

SpecShotRules == InitShotRules /\ [][ShotClockNext]_vars

AttrNext == AddExtraAttrs /\ UNCHANGED <<probeVars, repairVars, scVars, parserVars, techVars, cdnVars, adapterVars, ftVars, aggVars, startVars, fallbackVars, v3Vars, copyVars, boxVars, tripVars>>

InitAttrs == AttrInit /\ ProbeIdle /\ RepairIdle /\ ScIdle /\ ParserIdle /\ TechIdle /\ CdnIdle /\ AdapterIdle /\ FtIdle /\ AggIdle /\ StartIdle /\ FallbackIdle /\ V3Idle /\ CopyIdle /\ BoxIdle /\ TripIdle

SpecAttrs == InitAttrs /\ [][AttrNext]_vars

ParserNext == ParseGameData /\ UNCHANGED <<probeVars, repairVars, scVars, attrVars, techVars, cdnVars, adapterVars, ftVars, aggVars, startVars, fallbackVars, v3Vars, copyVars, boxVars, tripVars>>

InitParser == ParserInit /\ ProbeIdle /\ RepairIdle /\ ScIdle /\ AttrIdle /\ TechIdle /\ CdnIdle /\ AdapterIdle /\ FtIdle /\ AggIdle /\ StartIdle /\ FallbackIdle /\ V3Idle /\ CopyIdle /\ BoxIdle /\ TripIdle

SpecParser == InitParser /\ [][ParserNext]_vars

TechNext == FixTechnicalFoulOrder /\ UNCHANGED <<probeVars, repairVars, scVars, attrVars, parserVars, cdnVars, adapterVars, ftVars, aggVars, startVars, fallbackVars, v3Vars, copyVars, boxVars, tripVars>>

InitTech == TechInit /\ ProbeIdle /\ RepairIdle /\ ScIdle /\ AttrIdle /\ ParserIdle /\ CdnIdle /\ AdapterIdle /\ FtIdle /\ AggIdle /\ StartIdle /\ FallbackIdle /\ V3Idle /\ CopyIdle /\ BoxIdle /\ TripIdle

SpecTech == InitTech /\ [][TechNext]_vars

CdnNext == LoadFromCdn /\ UNCHANGED <<probeVars, repairVars, scVars, attrVars, parserVars, techVars, adapterVars, ftVars, aggVars, startVars, fallbackVars, v3Vars, copyVars, boxVars, tripVars>>

InitCdn == CdnInit /\ ProbeIdle /\ RepairIdle /\ ScIdle /\ AttrIdle /\ ParserIdle /\ TechIdle /\ AdapterIdle /\ FtIdle /\ AggIdle /\ StartIdle /\ FallbackIdle /\ V3Idle /\ CopyIdle /\ BoxIdle /\ TripIdle

SpecCdn == InitCdn /\ [][CdnNext]_vars

AdapterNext == MapEventMsgActionType /\ UNCHANGED <<probeVars, repairVars, scVars, attrVars, parserVars, techVars, cdnVars, ftVars, aggVars, startVars, fallbackVars, v3Vars, copyVars, boxVars, tripVars>>

InitAdapter == AdapterInit /\ ProbeIdle /\ RepairIdle /\ ScIdle /\ AttrIdle /\ ParserIdle /\ TechIdle /\ CdnIdle /\ FtIdle /\ AggIdle /\ StartIdle /\ FallbackIdle /\ V3Idle /\ CopyIdle /\ BoxIdle /\ TripIdle

SpecAdapter == InitAdapter /\ [][AdapterNext]_vars

FreeThrowMadeNext == ReadIsMade /\ UNCHANGED <<probeVars, repairVars, scVars, attrVars, parserVars, techVars, cdnVars, adapterVars, aggVars, startVars, fallbackVars, v3Vars, copyVars, boxVars, tripVars>>

InitFreeThrowMade == FtInit /\ ProbeIdle /\ RepairIdle /\ ScIdle /\ AttrIdle /\ ParserIdle /\ TechIdle /\ CdnIdle /\ AdapterIdle /\ AggIdle /\ StartIdle /\ FallbackIdle /\ V3Idle /\ CopyIdle /\ BoxIdle /\ TripIdle

SpecFreeThrowMade == InitFreeThrowMade /\ [][FreeThrowMadeNext]_vars

AggNext == AggregateEventStats /\ UNCHANGED <<probeVars, repairVars, scVars, attrVars, parserVars, techVars, cdnVars, adapterVars, ftVars, startVars, fallbackVars, v3Vars, copyVars, boxVars, tripVars>>

InitAgg == AggInit /\ ProbeIdle /\ RepairIdle /\ ScIdle /\ AttrIdle /\ ParserIdle /\ TechIdle /\ CdnIdle /\ AdapterIdle /\ FtIdle /\ StartIdle /\ FallbackIdle /\ V3Idle /\ CopyIdle /\ BoxIdle /\ TripIdle

SpecAgg == InitAgg /\ [][AggNext]_vars

StartNext == ReadPossessionStartType /\ UNCHANGED <<probeVars, repairVars, scVars, attrVars, parserVars, techVars, cdnVars, adapterVars, ftVars, aggVars, fallbackVars, v3Vars, copyVars, boxVars, tripVars>>

InitStart == StartInit /\ ProbeIdle /\ RepairIdle /\ ScIdle /\ AttrIdle /\ ParserIdle /\ TechIdle /\ CdnIdle /\ AdapterIdle /\ FtIdle /\ AggIdle /\ FallbackIdle /\ V3Idle /\ CopyIdle /\ BoxIdle /\ TripIdle

SpecStart == InitStart /\ [][StartNext]_vars

FallbackNext ==
    \/ FixEventOrder /\ UNCHANGED <<probeVars, repairVars, scVars, attrVars, parserVars, techVars, cdnVars, adapterVars, ftVars, aggVars, startVars, v3Vars, copyVars, boxVars, tripVars>>
    \/ FixCommonEventOrderError /\ UNCHANGED <<probeVars, repairVars, scVars, attrVars, parserVars, techVars, cdnVars, adapterVars, ftVars, aggVars, startVars, v3Vars, copyVars, boxVars, tripVars>>

InitFallback == FallbackInit /\ ProbeIdle /\ RepairIdle /\ ScIdle /\ AttrIdle /\ ParserIdle /\ TechIdle /\ CdnIdle /\ AdapterIdle /\ FtIdle /\ AggIdle /\ StartIdle /\ V3Idle /\ CopyIdle /\ BoxIdle /\ TripIdle

SpecFallback == InitFallback /\ [][FallbackNext]_vars

InitPatterns == PatternInit /\ ProbeIdle /\ RepairIdle /\ ScIdle /\ AttrIdle /\ ParserIdle /\ TechIdle /\ CdnIdle /\ AdapterIdle /\ FtIdle /\ AggIdle /\ StartIdle /\ V3Idle /\ CopyIdle /\ BoxIdle /\ TripIdle

SpecPatterns == InitPatterns /\ [][FallbackNext]_vars

InitDupRows == DupInit /\ ProbeIdle /\ RepairIdle /\ ScIdle /\ AttrIdle /\ ParserIdle /\ TechIdle /\ CdnIdle /\ AdapterIdle /\ FtIdle /\ AggIdle /\ StartIdle /\ V3Idle /\ CopyIdle /\ BoxIdle /\ TripIdle

SpecDupRows == InitDupRows /\ [][FallbackNext]_vars

V3Next == UseStatsNbaV3EventOrder /\ UNCHANGED <<probeVars, repairVars, scVars, attrVars, parserVars, techVars, cdnVars, adapterVars, ftVars, aggVars, startVars, fallbackVars, copyVars, boxVars, tripVars>>

InitV3 == V3Init /\ ProbeIdle /\ RepairIdle /\ ScIdle /\ AttrIdle /\ ParserIdle /\ TechIdle /\ CdnIdle /\ AdapterIdle /\ FtIdle /\ AggIdle /\ StartIdle /\ FallbackIdle /\ CopyIdle /\ BoxIdle /\ TripIdle

SpecV3 == InitV3 /\ [][V3Next]_vars

CopyNext == AddExtraAttrsToItem /\ UNCHANGED <<probeVars, repairVars, scVars, attrVars, parserVars, techVars, cdnVars, adapterVars, ftVars, aggVars, startVars, fallbackVars, v3Vars, boxVars, tripVars>>

InitCopy == CopyInit /\ ProbeIdle /\ RepairIdle /\ ScIdle /\ AttrIdle /\ ParserIdle /\ TechIdle /\ CdnIdle /\ AdapterIdle /\ FtIdle /\ AggIdle /\ StartIdle /\ FallbackIdle /\ V3Idle /\ BoxIdle /\ TripIdle

SpecCopy == InitCopy /\ [][CopyNext]_vars

BoxNext == GetPeriodStartersFromBoxscoreLoader /\ UNCHANGED <<probeVars, repairVars, scVars, attrVars, parserVars, techVars, cdnVars, adapterVars, ftVars, aggVars, startVars, fallbackVars, v3Vars, copyVars, tripVars>>

InitBox == BoxInit /\ ProbeIdle /\ RepairIdle /\ ScIdle /\ AttrIdle /\ ParserIdle /\ TechIdle /\ CdnIdle /\ AdapterIdle /\ FtIdle /\ AggIdle /\ StartIdle /\ FallbackIdle /\ V3Idle /\ CopyIdle /\ TripIdle

SpecBox == InitBox /\ [][BoxNext]_vars

TripNext == NormalizeFreeThrow /\ UNCHANGED <<probeVars, repairVars, scVars, attrVars, parserVars, techVars, cdnVars, adapterVars, ftVars, aggVars, startVars, fallbackVars, v3Vars, copyVars, boxVars>>

InitTrip == TripInit /\ ProbeIdle /\ RepairIdle /\ ScIdle /\ AttrIdle /\ ParserIdle /\ TechIdle /\ CdnIdle /\ AdapterIdle /\ FtIdle /\ AggIdle /\ StartIdle /\ FallbackIdle /\ V3Idle /\ CopyIdle /\ BoxIdle

SpecTrip == InitTrip /\ [][TripNext]_vars

(***************************************************************************)
(* Claims about the rebound probe and the order repair                     *)
(***************************************************************************)

\* the condition the documentation gives for a rebound to resolve
DocumentedProbeCondition(items, i) ==
    LET p == PrevIdx(items, i)
    IN  /\ p /= 0
        /\ \/ IsFieldGoal(items[p]) /\ ~IsMade(items, p)
           \/ IsFreeThrow(items[p]) /\ ~IsMade(items, p)
           \/ IsTurnover(items[p]) /\ items[p].scv
           \/ /\ IsJumpBall(items[p])
              /\ LET q == SkipSubsTimeouts(items, PrevIdx(items, p))
                 IN  q /= 0 /\ (IsFieldGoal(items[q]) \/ IsFreeThrow(items[q]))

\* C1: missed_shot resolves exactly when the previous event is a missed field
\* goal, a missed free throw, a shot-clock-violation Turnover, or a JumpBall
\* whose nearest earlier non-Substitution/Timeout event is a field goal or a
\* free throw; in every other case it raises EventOrderError.
C1_ProbeResolvesAsDocumented ==
    pIdx /= 0 =>
        /\ pRes \in {"resolved", "EventOrderError"}
        /\ (pRes = "resolved") <=> DocumentedProbeCondition(pItems, pIdx)

\* C2: when a rebound still fails after the pattern repairs and the v3
\* reorder, the loader raises EventOrderError; it never completes normally
\* with a rebound whose missed_shot fails.
C2_LoaderNeverReturnsBadOrder ==
    (mode = "loader" /\ pc = "done" /\ outcome = "returned")
        => BadRebounds(rows) = {}

\* C3: the repair loop calls the pattern-fix routine at most MAX_RETRIES
\* times: at most 6 times in the loader, at most 20 in the processor.
C3_FixCallsWithinMaxRetries ==
    /\ mode = "loader" => fixCalls <= LoaderMaxRetries
    /\ mode = "proc" => fixCalls <= ProcMaxRetries

\* C4: the order repair run on rows whose rebounds all resolve is a no-op:
\* no fix routine runs, nothing is deleted or logged, the rows stay identical
\* and the run does not raise.
C4_ValidRowsUntouched ==
    BadRebounds(rows0) = {} =>
        /\ rows = rows0
        /\ fixCalls = 0
        /\ deleted = <<>>
        /\ dlog = <<>>
        /\ outcome \in {"running", "returned"}

C4_Witness ==
    /\ pc = "done"
    /\ outcome = "returned"
    /\ BadRebounds(rows0) = {}
    /\ \E i \in 1..Len(rows0) : IsRebound(rows0[i])

\* the row of rs carrying EVENTNUM n
RowOfNum(rs, n) ==
    rs[CHOOSE i \in 1..Len(rs) : rs[i].num = n]

\* C5: with REBOUND_STRICT_MODE true the fallback never deletes a player
\* rebound (PLAYER1_ID non-zero and below 1610000000); when only player
\* rebounds are candidates it re-raises the error and leaves the rows as
\* they were.
C5_StrictKeepsPlayerRebounds ==
    (mode = "proc" /\ strict) =>
        /\ \A k \in 1..Len(deleted) :
              LET r == RowOfNum(rows0, deleted[k])
              IN  r.type = 4 /\ (r.pid = 0 \/ r.pid >= TeamIdBase)
        /\ lastFix.kind /= "delPlayer"
        /\ lastFix.kind = "refused" =>
              /\ outcome = "EventOrderError"
              /\ pc = "done"
              /\ rows = lastFix.before

C5_Witness ==
    /\ mode = "proc" /\ strict
    /\ lastFix.kind = "refused"
    /\ \E i \in 1..Len(rows) :
          rows[i].type = 4 /\ rows[i].pid /= 0 /\ rows[i].pid < TeamIdBase

\* C6: when a repair-log list is supplied, after any run it holds exactly one
\* record per row the fallback deleted, and every deleted_EVENTNUM names a
\* row that is no longer in the data.
C6_LogMatchesDeletions ==
    (mode = "proc" /\ logOn) =>
        /\ dlog = deleted
        /\ \A k \in 1..Len(dlog) :
              \A i \in 1..Len(rows) : rows[i].num /= dlog[k]

(***************************************************************************)
(* Claims about the shot-clock annotator                                   *)
(***************************************************************************)

\* C7: after annotate_shot_clock has run, every event's shot_clock lies in
\* [0.0, 24.0] and does not exceed the event's seconds_remaining.
C7_ShotClockWithinClocks ==
    scDone =>
        \A i \in 1..Len(scEvents) :
            /\ 0 <= scClock[i]
            /\ scClock[i] <= FullReset
            /\ scClock[i] <= scEvents[i].sec

\* C8: every Turnover with is_shot_clock_violation is assigned shot_clock
\* exactly 0.0, whatever the decayed state and the game clock are.
C8_ViolationReadsZero ==
    scDone =>
        \A i \in 1..Len(scEvents) :
            (IsTurnover(scEvents[i]) /\ scEvents[i].scv) => scClock[i] = 0

C8_Witness ==
    /\ scDone
    /\ \E i \in 1..Len(scEvents) :
          /\ IsTurnover(scEvents[i]) /\ scEvents[i].scv
          /\ scBefore[i] > 0
          /\ scEvents[i].sec > 0

\* the events of the rebound's period and timestamp listed before it
SameStampBefore(evs, i) ==
    { j \in 1..(i - 1) : evs[j].per = evs[i].per /\ evs[j].sec = evs[i].sec }

\* the miss a rebound is taken to follow: the missed_shot link, and without
\* a link the nearest miss of the same timestamp listed before the rebound;
\* 0 when there is none
ReboundedMiss(evs, r) ==
    LET cand == { j \in SameStampBefore(evs, r) :
                    evs[j].type \in {1, 2, 3} /\ ~evs[j].made }
    IN  IF MissedShotLink(evs, r) /= 0 THEN MissedShotLink(evs, r)
        ELSE IF cand = {} THEN 0
        ELSE CHOOSE j \in cand : \A k \in cand : k <= j

\* C9: after a real offensive rebound the state becomes short_reset, unless
\* the rebounded miss was blocked or is an airball, in which case the state
\* stays as it was; without a missed_shot link the miss is looked for among
\* the events of the same timestamp before the rebound only.  After a real
\* defensive rebound the state becomes 24.
C9_ReboundResets ==
    scDone =>
        \A i \in 1..Len(scEvents) :
            (IsRebound(scEvents[i]) /\ scEvents[i].real) =>
                LET m == ReboundedMiss(scEvents, i)
                IN  IF ~scEvents[i].oreb THEN scAfter[i] = FullReset
                    ELSE IF m /= 0 /\ (scEvents[m].blocked \/ scEvents[m].airball)
                    THEN scAfter[i] = scBefore[i]
                    ELSE scAfter[i] = scShort

\* an unlinked offensive rebound after a blocked miss of its timestamp, with
\* a plain miss listed behind it, leaves a state that is not the short reset
C9_Witness ==
    /\ scDone
    /\ \E i \in 2..Len(scEvents) :
          /\ IsRebound(scEvents[i]) /\ scEvents[i].oreb
          /\ MissedShotLink(scEvents, i) = 0
          /\ ReboundedMiss(scEvents, i) /= 0
          /\ scEvents[ReboundedMiss(scEvents, i)].blocked
          /\ scAfter[i] = scBefore[i]
          /\ scAfter[i] /= scShort
          /\ i < Len(scEvents)
          /\ scEvents[i + 1].sec = scEvents[i].sec
          /\ scEvents[i + 1].type = 2
          /\ ~scEvents[i + 1].blocked /\ ~scEvents[i + 1].airball

\* a defensive loose-ball foul after which the offense keeps the ball
RetainedLooseBallFoul(evs, i) ==
    /\ evs[i].type = 6 /\ evs[i].loose
    /\ evs[i].off /= 0 /\ evs[i].team /= evs[i].off
    /\ i < Len(evs)
    /\ evs[i + 1].per = evs[i].per
    /\ evs[i + 1].off = evs[i].off

\* C10 as stated: at such a foul a missed shot listed before it at the same
\* timestamp resets the state to short_reset; a missed shot listed after it
\* at the same timestamp does not cause the reset.
C10_AnyPriorMissResets ==
    scDone =>
        \A i \in 1..Len(scEvents) :
            RetainedLooseBallFoul(scEvents, i) =>
                /\ (\E j \in SameStampBefore(scEvents, i) :
                        scEvents[j].type \in {2, 3} /\ ~scEvents[j].made)
                      => scAfter[i] = scShort
                /\ (/\ SameStampBefore(scEvents, i) = {}
                    /\ scEvents[i + 1].sec = scEvents[i].sec
                    /\ scEvents[i + 1].type \in {2, 3} /\ ~scEvents[i + 1].made
                    /\ scBefore[i] > scShort)
                      => scAfter[i] /= scShort

\* whether an event listed before the foul at its timestamp shows rim
\* contact: a missed field goal neither blocked nor an airball, or a real
\* rebound whose rebounded miss is neither (a rebound without any miss
\* shows none)
RimContactBefore(evs, i) ==
    \E j \in SameStampBefore(evs, i) :
        \/ /\ evs[j].type = 2
           /\ ~evs[j].blocked /\ ~evs[j].airball
        \/ /\ evs[j].type = 4 /\ evs[j].real
           /\ ReboundedMiss(evs, j) /= 0
           /\ ~evs[ReboundedMiss(evs, j)].blocked
           /\ ~evs[ReboundedMiss(evs, j)].airball

\* C10 amended: at such a foul the state becomes short_reset when an event
\* listed before the foul at its timestamp shows rim contact; otherwise it
\* becomes the larger of short_reset and the state, whatever is listed after
\* the foul (24 when the short reset equals the full reset).
C10_RimContactBeforeResets ==
    scDone =>
        \A i \in 1..Len(scEvents) :
            RetainedLooseBallFoul(scEvents, i) =>
                scAfter[i] =
                    IF scShort >= FullReset THEN FullReset
                    ELSE IF RimContactBefore(scEvents, i) THEN scShort
                    ELSE IF scBefore[i] > scShort THEN scBefore[i]
                    ELSE scShort

\* the foul opens its timestamp, a plain miss follows at the same timestamp,
\* and the state stays above the short reset
C10_Witness ==
    /\ scDone
    /\ scShort < FullReset
    /\ \E i \in 1..Len(scEvents) :
          /\ RetainedLooseBallFoul(scEvents, i)
          /\ ~RimContactBefore(scEvents, i)
          /\ scEvents[i + 1].sec = scEvents[i].sec
          /\ scEvents[i + 1].type = 2
          /\ ~scEvents[i + 1].blocked /\ ~scEvents[i + 1].airball
          /\ scAfter[i] = scBefore[i]
          /\ scAfter[i] > scShort

(***************************************************************************)
(* Claims about _add_extra_attrs_to_all_events                             *)
(***************************************************************************)

\* the pass has run, to its end or to the IndexError
AttrsRan == atOutcome \in {"done", "IndexError"}

\* the neighbour in the same period, as documented (0: null)
SamePeriodPrev(items, i) ==
    IF i > 1 /\ items[i - 1].per = items[i].per THEN i - 1 ELSE 0

SamePeriodNext(items, i) ==
    IF i < Len(items) /\ items[i + 1].per = items[i].per THEN i + 1 ELSE 0

\* C12: after the pass, previous_event of the item at index i is the item
\* before it when that one is in the same period and null otherwise, and
\* next_event is the item after it when that one exists and is in the same
\* period and null otherwise.
C12_LinksStayInPeriod ==
    AttrsRan =>
        \A i \in DOMAIN atPrev :
            /\ atPrev[i] = SamePeriodPrev(atItems, i)
            /\ atNext[i] = SamePeriodNext(atItems, i)

\* item i is inside the last two minutes of its period
InTwoMinutes(i) == atItems[i].sec <= TwoMinutes

\* team t has no Foul among the items of item i's period up to item i
NoFoulInPeriod(i, t) ==
    \A j \in 1..i :
        ~(atItems[j].per = atItems[i].per /\ atItems[j].type = 6
          /\ atItems[j].team = t)

\* the item at which the pass last reset fouls_to_give at or before item i:
\* the latest StartOfPeriod, else the first item
LastReset(i) ==
    LET starts == { j \in 1..i : IsStartOfPeriod(atItems[j]) }
    IN  IF starts = {} THEN 1 ELSE MaxOf(starts)

\* team t has no Foul counting towards the penalty from the last reset to item i
NoPenaltyFoulSinceReset(i, t) ==
    \A j \in LastReset(i)..i :
        ~(atItems[j].type = 6 /\ atItems[j].penalty /\ atItems[j].team = t)

ScoreBefore(i, t) == IF i = 1 THEN 0 ELSE atScore[i - 1][t]

\* item i is a made FieldGoal or FreeThrow of team t
MadeShotOf(i, t) ==
    atItems[i].type \in {1, 2, 3} /\ atItems[i].made /\ atItems[i].team = t

\* C14: for every team the score attached to successive items never goes
\* down; it changes only on a made FieldGoal or FreeThrow of that team, and
\* then by the shot's shot_value.
C14_ScoreMonotonic ==
    AttrsRan =>
        \A i \in DOMAIN atScore : \A t \in Teams :
            /\ atScore[i][t] >= ScoreBefore(i, t)
            /\ atScore[i][t] # ScoreBefore(i, t) => MadeShotOf(i, t)
            /\ MadeShotOf(i, t) =>
                   atScore[i][t] = ScoreBefore(i, t) + atItems[i].value

\* a team scores on a second made shot, after a miss in between
C14_Witness ==
    /\ atOutcome = "done"
    /\ \E i \in DOMAIN atScore : \E t \in Teams :
          /\ i > 1
          /\ ScoreBefore(i, t) > 0
          /\ atScore[i][t] > ScoreBefore(i, t)
          /\ \E j \in 1..i : atItems[j].type = 2 /\ ~atItems[j].made

(***************************************************************************)
(* Claims about nba_stats_parser                                           *)
(***************************************************************************)

\* the ids of a lineup
PlayersOf(lineup) == { lineup[k] : k \in DOMAIN lineup }

\* C11: after lineup tracking, for every event and every team that appears
\* in the event's current_players, the team's lineup is exactly five
\* distinct player ids, whatever substitutions came before.
C11_FiveDistinctPlayers ==
    psOutcome = "done" =>
        \A i \in DOMAIN psRead : \A t \in psRead[i].keys :
            /\ Len(psRead[i].pl[t]) = 5
            /\ Cardinality(PlayersOf(psRead[i].pl[t])) = 5

\* the possessions laid end to end
RECURSIVE Flatten(_)
Flatten(ps) == IF ps = <<>> THEN <<>> ELSE Head(ps) \o Flatten(Tail(ps))

\* C15: _build_possessions partitions the events: no possession is empty,
\* the possessions in order give back the events in order, every possession
\* but the last ends with a possession-ending event, and no event before
\* the last one of a possession is possession-ending.
C15_PossessionsPartitionEvents ==
    psOutcome = "done" =>
        /\ \A p \in DOMAIN psPoss : psPoss[p] # <<>>
        /\ Flatten(psPoss) = [ i \in 1..Len(psEvents) |-> i ]
        /\ \A p \in DOMAIN psPoss :
              p < Len(psPoss) => psEnding[psPoss[p][Len(psPoss[p])]]
        /\ \A p \in DOMAIN psPoss : \A k \in DOMAIN psPoss[p] :
              k < Len(psPoss[p]) => ~psEnding[psPoss[p][k]]

\* a possession of two events ends on its ending event and the trailing
\* possession is left open
C15_Witness ==
    /\ psOutcome = "done"
    /\ Len(psPoss) = 2
    /\ Len(psPoss[1]) = 2
    /\ ~psEnding[psPoss[2][Len(psPoss[2])]]

\* the events that end a possession, as documented
DocumentedEnding(events, i) ==
    LET e == events[i] IN
    \/ e.type \in {1, 2} /\ FieldGoal_is_made(e)
    \/ /\ e.type = 3
       /\ FreeThrow_is_made(events, i)
       /\ e.trip \in {"1 of 1", "2 of 2", "3 of 3"}
    \/ e.type = 4 /\ ~Rebound_oreb(events, i)
    \/ e.type = 5 /\ e.action # 0
    \/ e.type \in {7, 10, 13}

\* C16: is_possession_ending_event is true exactly for a made FieldGoal, a
\* made terminal FreeThrow (1 of 1, 2 of 2, 3 of 3), a defensive real
\* Rebound, a real Turnover, a JumpBall, an EndOfPeriod and a Violation,
\* and false for every other event.
C16_EndingAsDocumented ==
    psOutcome = "done" =>
        \A i \in DOMAIN psEnding : psEnding[i] = DocumentedEnding(psEvents, i)

(***************************************************************************)
(* Claims about _fix_order_when_technical_foul_before_period_start         *)
(***************************************************************************)

\* the rows on entry hold a technical foul of a period listed before every
\* StartOfPeriod row of that period, of which there is one
TechnicalBeforePeriodStart ==
    \E i, k \in DOMAIN tfRows :
        /\ IsTechnicalFoulRow(tfRows[i])
        /\ i < k /\ tfRows[k].type = 12 /\ tfRows[k].per = tfRows[i].per
        /\ \A j \in 1..(i - 1) :
              ~(tfRows[j].type = 12 /\ tfRows[j].per = tfRows[i].per)

\* C17: when the raw rows hold a technical foul of period P before the
\* StartOfPeriod row of period P, then on return the StartOfPeriod row of
\* each period precedes every other row of that period.
C17_PeriodStartFirst ==
    (tfOutcome \in {"unchanged", "reordered"} /\ TechnicalBeforePeriodStart) =>
        \A i, j \in DOMAIN tfOut :
            (tfOut[j].type = 12 /\ tfOut[i].per = tfOut[j].per /\ i # j) => j < i

\* a technical foul listed before its period's StartOfPeriod has been moved
\* behind it
C17_Witness ==
    /\ tfOutcome = "reordered"
    /\ TechnicalBeforePeriodStart
    /\ tfSaved
    /\ \E i, j \in DOMAIN tfOut :
          /\ j < i /\ tfOut[j].type = 12 /\ IsTechnicalFoulRow(tfOut[i])
          /\ tfOut[i].per = tfOut[j].per /\ tfOut[i].num < tfOut[j].num

(***************************************************************************)
(* Claims about the CDN load path                                          *)
(***************************************************************************)

\* the elements of a sequence
RangeOf(s) == { s[k] : k \in DOMAIN s }

\* the k-th smallest index of a set of indices
KthOf(S, k) == CHOOSE x \in S : Cardinality({ y \in S : y < x }) = k - 1

\* the action is a substitution that already carries both ids
AlreadyPaired(a) == a.outId # 0 /\ a.inId # 0

\* the unpaired halves of the given subtype among the members of a group
HalvesOf(actions, members, subtype) ==
    { i \in members : ~AlreadyPaired(actions[i]) /\ actions[i].sub = subtype }

\* the substitution made of an out half and an in half
IsMergeOf(r, out_ev, in_ev) ==
    /\ IsSubstitutionAction(r)
    /\ r.outId = OrElse(out_ev.outId, out_ev.person)
    /\ r.inId = OrElse(in_ev.inId, in_ev.person)

\* within the group "members" of actions: the k-th out half and the k-th
\* in half are replaced by their merge, the halves beyond the shorter side
\* and the actions with both ids are in the result as they were
PairedInGroup(actions, result, members) ==
    LET outs == HalvesOf(actions, members, "out")
        ins  == HalvesOf(actions, members, "in")
        m    == IF Cardinality(outs) < Cardinality(ins)
                THEN Cardinality(outs) ELSE Cardinality(ins)
    IN  /\ \A k \in 1..m :
              /\ \E r \in RangeOf(result) :
                    IsMergeOf(r, actions[KthOf(outs, k)], actions[KthOf(ins, k)])
              /\ actions[KthOf(outs, k)] \notin RangeOf(result)
              /\ actions[KthOf(ins, k)] \notin RangeOf(result)
        /\ \A k \in (m + 1)..Cardinality(outs) :
              actions[KthOf(outs, k)] \in RangeOf(result)
        /\ \A k \in (m + 1)..Cardinality(ins) :
              actions[KthOf(ins, k)] \in RangeOf(result)
        /\ \A i \in members :
              AlreadyPaired(actions[i]) => actions[i] \in RangeOf(result)

\* all substitution actions with the same (period, clock, teamId)
KeyGroup(actions, g) ==
    { i \in DOMAIN actions : IsSubstitutionAction(actions[i]) /\ sub_key(actions[i]) = g }

\* the substitution actions that follow one another from s on with the
\* (period, clock, teamId) of action s
RunFrom(actions, s) ==
    { j \in s..Len(actions) :
        \A n \in s..j : /\ IsSubstitutionAction(actions[n])
                        /\ sub_key(actions[n]) = sub_key(actions[s]) }

\* where a run of consecutive same-key substitutions begins
RunStarts(actions) ==
    { s \in DOMAIN actions :
        /\ IsSubstitutionAction(actions[s])
        /\ \/ s = 1
           \/ ~IsSubstitutionAction(actions[s - 1])
           \/ sub_key(actions[s - 1]) # sub_key(actions[s]) }

\* C18 as stated: for each group of substitution actions sharing (period,
\* clock, teamId), the k-th unpaired out half is merged with the k-th
\* unpaired in half into one substitution carrying both ids; halves without
\* a partner in the group and actions with both ids are emitted unchanged.
C18_PairsWithinKeyGroup ==
    cdnOutcome = "done" =>
        \A g \in { sub_key(cdnIncluded[i]) : i \in DOMAIN cdnIncluded } :
            PairedInGroup(cdnIncluded, cdnCoalesced, KeyGroup(cdnIncluded, g))

\* C18 amended: the groups are the runs of consecutive substitution
\* actions sharing (period, clock, teamId); within each run the k-th
\* unpaired out half is merged with the k-th unpaired in half, halves
\* without a partner in the run and actions with both ids are emitted
\* unchanged, and so is every action that is no substitution.
C18_PairsWithinConsecutiveRun ==
    cdnOutcome = "done" =>
        /\ \A s \in RunStarts(cdnIncluded) :
              PairedInGroup(cdnIncluded, cdnCoalesced, RunFrom(cdnIncluded, s))
        /\ \A i \in DOMAIN cdnIncluded :
              ~IsSubstitutionAction(cdnIncluded[i]) =>
                  cdnIncluded[i] \in RangeOf(cdnCoalesced)
        /\ \A r \in RangeOf(cdnCoalesced) :
              \/ r \in RangeOf(cdnIncluded)
              \/ \E s \in RunStarts(cdnIncluded) :
                    \E o, i \in RunFrom(cdnIncluded, s) :
                        IsMergeOf(r, cdnIncluded[o], cdnIncluded[i])

\* two out halves followed by two in halves of one run give two merged
\* substitutions, first with first and second with second
C18_Witness ==
    /\ cdnOutcome = "done"
    /\ Len(cdnIncluded) = 4
    /\ \A i \in 1..4 : IsSubstitutionAction(cdnIncluded[i]) /\ ~AlreadyPaired(cdnIncluded[i])
    /\ cdnIncluded[1].sub = "out" /\ cdnIncluded[2].sub = "out"
    /\ Len(cdnCoalesced) = 2
    /\ IsMergeOf(cdnCoalesced[1], cdnIncluded[1], cdnIncluded[3])
    /\ IsMergeOf(cdnCoalesced[2], cdnIncluded[2], cdnIncluded[4])

\* the first action of the list with the key
FirstWithKey(actions, key) ==
    MinOf({ i \in DOMAIN actions : DedupeKey(actions[i]) = key })

\* the action that stands for the key: the first one, or the first edited
\* duplicate when the first one is not edited
KeptForKey(actions, key) ==
    LET f      == FirstWithKey(actions, key)
        edited == { i \in DOMAIN actions :
                      i > f /\ DedupeKey(actions[i]) = key /\ actions[i].edited }
    IN  IF ~actions[f].edited /\ edited # {}
        THEN actions[MinOf(edited)] ELSE actions[f]

\* C19: _dedupe_actions returns one action per distinct (actionNumber,
\* timeActual, orderNumber), in the order of the keys' first occurrences;
\* it is the first occurrence, unless that one is not edited and a later
\* duplicate is, and then it is the first edited duplicate.
C19_OneActionPerKey ==
    cdnOutcome = "done" =>
        /\ { DedupeKey(a) : a \in RangeOf(cdnDeduped) }
               = { DedupeKey(a) : a \in RangeOf(cdnSorted) }
        /\ \A p, q \in DOMAIN cdnDeduped :
              p < q => FirstWithKey(cdnSorted, DedupeKey(cdnDeduped[p]))
                           < FirstWithKey(cdnSorted, DedupeKey(cdnDeduped[q]))
        /\ \A p \in DOMAIN cdnDeduped :
              cdnDeduped[p] = KeptForKey(cdnSorted, DedupeKey(cdnDeduped[p]))

\* an unedited action is followed by two edited duplicates and the first
\* of these is the one kept
C19_Witness ==
    /\ cdnOutcome = "done"
    /\ \E i, j, k \in DOMAIN cdnSorted :
          /\ i < j /\ j < k
          /\ DedupeKey(cdnSorted[i]) = DedupeKey(cdnSorted[j])
          /\ DedupeKey(cdnSorted[j]) = DedupeKey(cdnSorted[k])
          /\ ~cdnSorted[i].edited /\ cdnSorted[j].edited /\ cdnSorted[k].edited
          /\ cdnSorted[j] \in RangeOf(cdnDeduped)
          /\ cdnSorted[i] \notin RangeOf(cdnDeduped)
          /\ cdnSorted[k] \notin RangeOf(cdnDeduped)

\* the action is one of the supplemental ones
IsSupplemental(a) == LowerActionType(a.type) \in SupplementalTypes

NotSupplemental(a) == ~IsSupplemental(a)

\* the action converts to a row of a supported EVENTMSGTYPE
MapsToSupported(a) == map_eventmsgtype(a) \in SUPPORTED_EVENT_TYPES

\* C20 as stated: the load path drops exactly the supplemental actions and
\* emits one row for every other action left after pairing and
\* deduplication.
C20_OnlySupplementalDropped ==
    cdnOutcome = "done" =>
        /\ cdnIncluded = SelectSeq(cdnActions, NotSupplemental)
        /\ Len(cdnRows) = Len(cdnDeduped)
        /\ \A k \in DOMAIN cdnRows : cdnRows[k].person = cdnDeduped[k].person

\* C20 amended: the load path drops the supplemental actions before
\* pairing, and after pairing and deduplication emits one row, in order,
\* for every remaining action whose EVENTMSGTYPE is a supported one; an
\* action that converts to another type is dropped as well.
C20_SupplementalAndUnsupportedDropped ==
    cdnOutcome = "done" =>
        LET kept == SelectSeq(cdnDeduped, MapsToSupported)
        IN  /\ cdnIncluded = SelectSeq(cdnActions, NotSupplemental)
            /\ Len(cdnRows) = Len(kept)
            /\ \A k \in DOMAIN cdnRows :
                  /\ cdnRows[k].person = kept[k].person
                  /\ cdnRows[k].EVENTNUM = OrElse(kept[k].num, kept[k].ord)

\* a feed with a steal, an instant replay and a shot gives the shot's row only
C20_Witness ==
    /\ cdnOutcome = "done"
    /\ \E a \in RangeOf(cdnActions) : IsSupplemental(a)
    /\ \E a \in RangeOf(cdnDeduped) : ~MapsToSupported(a)
    /\ Len(cdnRows) = 1
    /\ cdnRows[1].EVENTMSGTYPE = 1

(***************************************************************************)
(* Claims about cdn_adapter                                                *)
(***************************************************************************)

\* the families that need no subcode
MetaFamilies == {"rebound", "timeout", "jumpball", "substitution", "stoppage"}

\* C21: for an action of type rebound, timeout, jump ball, substitution or
\* stoppage, map_eventmsgactiontype returns 0 and logs no warning, whether
\* evt_type is the mapped event code or None.
C21_MetaFamiliesReturnZeroSilently ==
    (adCalls > 0 /\ canon(adAction.type) \in MetaFamilies) =>
        (adResult = 0 /\ ~adWarned)

(***************************************************************************)
(* Claims about FreeThrow.is_made                                          *)
(***************************************************************************)

\* the free throw is the last of its trip, or a technical
FtFinalOrTechnical == ftEvents[1].trip \in {"1 of 1", "2 of 2", "3 of 3", "Technical"}

\* the event right after the free throw is a rebound of another team id
FtOpponentReboundNext ==
    /\ Len(ftEvents) > 1
    /\ ftEvents[2].type = 4
    /\ ftEvents[2].team # ftEvents[1].team

\* is_made as the claim words it
FtMadeAsClaimed ==
    IF ftEvents[1].missText # "none" THEN FALSE
    ELSE IF ftEvents[1].pts THEN TRUE
    ELSE ~(FtFinalOrTechnical /\ FtOpponentReboundNext)

FtStatsMadeAmended ==
    IF ftEvents[1].missText = "MISS " THEN FALSE
    ELSE IF ftEvents[1].pts THEN TRUE
    ELSE ~(/\ FtFinalOrTechnical
           /\ FtOpponentReboundNext
           /\ ftEvents[1].team # 0 /\ ftEvents[2].team # 0)

AggContributing ==
    LET events == AllEvents(agItems)
    IN  { <<k, n>> \in (DOMAIN events) \X (1..2) :
            ~events[k].raises /\ n \in DOMAIN events[k].stats }

AggRecordAt(p) == AllEvents(agItems)[p[1]].stats[p[2]]

\* the sum of stat_value over a set of records
RECURSIVE AggSum(_)
AggSum(S) ==
    IF S = {} THEN 0
    ELSE LET p == CHOOSE q \in S : TRUE
         IN  AggRecordAt(p).stat_value + AggSum(S \ {p})

\* the records with the key tuple
AggWithKey(key) == { p \in AggContributing : Grouper(agArgs, AggRecordAt(p)) = key }

\* the stat_key of a key tuple (the last key field)
AggStatKey(key) == key[Len(key)]

\* the value claimed for a key tuple, in tenths
AggClaimedTenths(key) ==
    IF /\ AggStatKey(key) \in KEYS_OFF_BY_FACTOR_OF_5_WHEN_AGGREGATING_FOR_TEAM_AND_LINEUPS
       /\ agArgs # <<"player_id", "team_id", "stat_key">>
    THEN 2 * AggSum(AggWithKey(key))
    ELSE 10 * AggSum(AggWithKey(key))

\* C23: for integer stat values the result holds exactly one record per
\* distinct tuple of the key fields; its stat_value is the sum of
\* stat_value over the event_stats records with that tuple, divided by 5
\* exactly when the stat_key is in the per-player-on-floor subset and
\* player_id is not a grouping key.
C23_OneSummedRecordPerKey ==
    agOutcome = "done" =>
        /\ \A p \in AggContributing :
              Cardinality({ i \in DOMAIN agResult :
                              agResult[i].key = Grouper(agArgs, AggRecordAt(p)) }) = 1
        /\ \A i \in DOMAIN agResult :
              /\ AggWithKey(agResult[i].key) # {}
              /\ agResult[i].tenths = AggClaimedTenths(agResult[i].key)

\* two events add up under one team key whose possession count is divided
C23_Witness ==
    /\ agOutcome = "done"
    /\ agArgs = <<"team_id", "stat_key">>
    /\ \E i \in DOMAIN agResult :
          /\ agResult[i].key = <<1, "OffPoss">>
          /\ Cardinality(AggWithKey(agResult[i].key)) = 4
          /\ agResult[i].tenths = 8
    /\ \E i \in DOMAIN agResult : AggStatKey(agResult[i].key) = "Points"

\* the possessions without the events whose event_stats raises
AggNotRaising(e) == ~e.raises

AggRemainingItems == [ i \in DOMAIN agItems |-> SelectSeq(agItems[i], AggNotRaising) ]

\* C24: when event_stats raises for some events the aggregation does not
\* raise, and its result is the aggregation over the remaining events: a
\* failing event adds nothing and no other event is skipped.
C24_FailingEventsAreSkipped ==
    agOutcome = "done" =>
        /\ agResult = aggregate_event_stats(AggRemainingItems, agArgs)
        /\ \A p \in AggContributing :
              \E i \in DOMAIN agResult : agResult[i].key = Grouper(agArgs, AggRecordAt(p))

\* an event that raises stands between two events that are aggregated
C24_Witness ==
    /\ agOutcome = "done"
    /\ agWarnings = 1
    /\ LET events == AllEvents(agItems)
       IN  /\ Len(events) = 3
           /\ events[2].raises
           /\ events[1].stats # <<>> /\ events[3].stats # <<>>
           /\ events[1].stats # events[3].stats
    /\ Len(agResult) >= 2

(***************************************************************************)
(* Claims about Possession.possession_start_type                           *)
(***************************************************************************)

\* the previous possession ended, ignoring substitutions, with a jump
\* ball that has no player2_id
StartAfterTippedOutJumpBall ==
    /\ stNumber > 1
    /\ ~stTimeout
    /\ LET e == previous_possession_ending_event(stPrevEvents)
       IN  e.cls = "JumpBall" /\ ~e.has_player2_id

\* C25: a possession whose previous possession ended (ignoring
\* substitutions) with a JumpBall that has no player2_id starts off a dead
\* ball: its possession_start_type is OffDeadball.
C25_TippedOutJumpBallIsDeadball ==
    (stOutcome = "done" /\ StartAfterTippedOutJumpBall) =>
        stStartType = OFF_DEADBALL_STRING

(***************************************************************************)
(* Claims about the shot-clock state machine                               *)
(***************************************************************************)

\* the retained-stop rule as stated: short_reset on rim-hit context, else
\* the larger of short_reset and the state; 24 when there is no short reset
RetainedStopAsStated(state, rim) ==
    IF scShort < FullReset
    THEN (IF rim THEN scShort ELSE IF state > scShort THEN state ELSE scShort)
    ELSE FullReset

\* the defense committed event i and the offense keeps the ball
DefenseStopRetained(i) ==
    LET off == safe_offense_team_id(scEvents, i, TRUE)
    IN  /\ off /= 0
        /\ scEvents[i].team /= off
        /\ ~infer_possession_changed(scEvents, i)

\* the rule list: <<applies, new state>> in the order of the list
RuleList(i, state) ==
    LET e       == scEvents[i]
        changed == infer_possession_changed(scEvents, i)
        rim     == infer_rim_hit_from_rebound(scEvents, i)
    IN  << \* defensive goaltending
           <<e.type = 7 /\ e.goaltend, FullReset>>,
           \* real rebounds
           <<e.type = 4 /\ e.real /\ ~e.oreb, FullReset>>,
           <<e.type = 4 /\ e.real /\ e.oreb /\ rim = "no", state>>,
           <<e.type = 4 /\ e.real /\ e.oreb, scShort>>,
           \* made field goals
           <<e.type = 1 /\ e.andOne, state>>,
           <<e.type = 1, FullReset>>,
           \* real turnovers
           <<e.type = 5 /\ ~e.noTurnover /\ e.kicked /\ DefenseStopRetained(i),
             RetainedStopAsStated(state, FALSE)>>,
           <<e.type = 5 /\ ~e.noTurnover, FullReset>>,
           \* terminal free throws
           <<e.type = 3 /\ e.endft, IF changed THEN FullReset ELSE state>>,
           \* jump balls
           <<e.type = 10, IF changed THEN FullReset ELSE state>>,
           \* defensive fouls, the offense keeping the ball
           <<e.type = 6 /\ DefenseStopRetained(i) /\ (e.tech \/ e.shooting), state>>,
           <<e.type = 6 /\ DefenseStopRetained(i) /\ e.loose,
             RetainedStopAsStated(state, rim_hit_context_at_time(scEvents, i))>>,
           <<e.type = 6 /\ DefenseStopRetained(i), RetainedStopAsStated(state, FALSE)>>,
           \* defensive violations, the offense keeping the ball
           <<e.type = 7 /\ DefenseStopRetained(i), RetainedStopAsStated(state, FALSE)>>,
           \* possession-change fallback
           <<TRUE, IF changed THEN FullReset ELSE state>> >>

\* the first applicable rule decides
FirstRule(i, state) ==
    LET rules == RuleList(i, state)
        k     == MinOf({ j \in DOMAIN rules : rules[j][1] })
    IN  rules[k][2]

\* event i is the first event of its period
FirstOfPeriod(i) == i = 1 \/ scEvents[i].per /= scEvents[i - 1].per

\* the state machine as stated: 24 at the first event of a period, then
\* the decay by the game-clock difference, floored at 0
RECURSIVE MachineBefore(_), MachineAfter(_)
MachineBefore(i) ==
    IF FirstOfPeriod(i) THEN FullReset
    ELSE LET left == MachineAfter(i - 1) - (scEvents[i - 1].sec - scEvents[i].sec)
         IN  IF left > 0 THEN left ELSE 0

MachineAfter(i) == FirstRule(i, MachineBefore(i))

\* the same machine that also starts afresh at every StartOfPeriod event
RECURSIVE MachineBeforeRestart(_), MachineAfterRestart(_)
MachineBeforeRestart(i) ==
    IF FirstOfPeriod(i) \/ scEvents[i].type = 12 THEN FullReset
    ELSE LET left == MachineAfterRestart(i - 1)
                       - (scEvents[i - 1].sec - scEvents[i].sec)
         IN  IF left > 0 THEN left ELSE 0

MachineAfterRestart(i) == FirstRule(i, MachineBeforeRestart(i))

\* min(state, 24, seconds_remaining) rounded to one decimal (hundredths);
\* a shot-clock-violation turnover reads 0
MachineDisplay(i, state) ==
    LET m1 == IF state < FullReset THEN state ELSE FullReset
        m2 == IF m1 < scEvents[i].sec THEN m1 ELSE scEvents[i].sec
        r  == m2 % 10
    IN  IF scEvents[i].type = 5 /\ scEvents[i].scv THEN 0
        ELSE IF r >= 5 THEN m2 - r + 10 ELSE m2 - r

RetainedBallStop(i) ==
    LET e == scEvents[i]
    IN  /\ DefenseStopRetained(i)
        /\ \/ e.type = 5 /\ ~e.noTurnover /\ e.kicked
           \/ e.type = 6
           \/ e.type = 7

\* the same, leaving out the fouls that keep the state: technical, double
\* and shooting fouls
RetainedBallStopRuled(i) ==
    /\ RetainedBallStop(i)
    /\ ~(scEvents[i].type = 6 /\ (scEvents[i].tech \/ scEvents[i].shooting))

\* rim-hit context applies to event i
RimHitContextApplies(i) ==
    /\ scEvents[i].type = 6
    /\ scEvents[i].loose
    /\ rim_hit_context_at_time(scEvents, i)

\* the state after the stop is not below short_reset and, without rim-hit
\* context, not below the state before it
StopKeepsState(i) ==
    /\ scAfter[i] >= scShort
    /\ ~RimHitContextApplies(i) => scAfter[i] >= scBefore[i]

\* C27 (as stated): the retained-stop rule returns short_reset on rim-hit
\* context, max(short_reset, state) otherwise and 24 whenever short_reset
\* is not below full_reset; after a retained-ball stop (defensive kicked
\* ball, defensive foul or violation with the offense keeping the ball)
\* the state is never below short_reset and never lower than before the
\* stop unless rim-hit context applies.
C27_RetainedStopKeepsState ==
    scDone =>
        \A i \in DOMAIN scEvents :
            RetainedBallStop(i) =>
                /\ StopKeepsState(i)
                /\ ~scEvents[i].goaltend =>
                      scAfter[i] = RetainedStopAsStated(scBefore[i],
                                                        RimHitContextApplies(i))

\* C27 (amended): the same for the retained-ball stops other than
\* technical, double and shooting fouls, which leave the state as it is.
C27_RuledStopKeepsState ==
    scDone =>
        \A i \in DOMAIN scEvents :
            /\ RetainedBallStopRuled(i) =>
                  /\ StopKeepsState(i)
                  /\ ~scEvents[i].goaltend =>
                        scAfter[i] = RetainedStopAsStated(scBefore[i],
                                                          RimHitContextApplies(i))
            /\ (RetainedBallStop(i) /\ ~RetainedBallStopRuled(i)) =>
                  scAfter[i] = scBefore[i]

\* a kicked ball by the defense with 12 seconds left lifts the state to
\* short_reset, and a loose-ball foul after a miss at its timestamp sets it
\* down to short_reset
C27_Witness ==
    /\ scDone
    /\ scShort = ShortReset
    /\ \/ \E i \in DOMAIN scEvents :
             /\ RetainedBallStopRuled(i)
             /\ scEvents[i].kicked
             /\ scBefore[i] < ShortReset
             /\ scAfter[i] = ShortReset
       \/ \E i \in DOMAIN scEvents :
             /\ RetainedBallStopRuled(i)
             /\ RimHitContextApplies(i)
             /\ scBefore[i] > ShortReset
             /\ scAfter[i] = ShortReset

(***************************************************************************)
(* Claims about the window of the orphan-rebound fallback                  *)
(***************************************************************************)

\* the team/placeholder rebounds among the next span rows after the
\* reported row that lie in its period
TeamReboundsWithin(span) ==
    LET ii == IssueIndexFirst(fbRows, fbEvent)
    IN  { j \in (ii + 1)..(ii + span) :
            /\ j <= Len(fbRows)
            /\ fbRows[j].per = fbRows[ii].per
            /\ fbRows[j].type = 4
            /\ (fbRows[j].pid = 0 \/ fbRows[j].pid >= 1610000000) }

\* exactly the earliest team rebound of the window is removed, the other
\* rows keep their order
EarliestTeamReboundDeleted(span) ==
    LET t == MinOf(TeamReboundsWithin(span))
    IN  /\ fbResult.err = ""
        /\ Len(fbResult.rows) = Len(fbRows) - 1
        /\ \A j \in 1..(t - 1) : fbResult.rows[j] = fbRows[j]
        /\ \A j \in t..Len(fbResult.rows) : fbResult.rows[j] = fbRows[j + 1]

\* C28 (as stated): when no repair pattern applies, the fallback examines
\* the next ten rows after the reported event that lie in the same period
\* and deletes the earliest of them that is a team/placeholder rebound;
\* exactly that row is removed and all other rows keep their order.
C28_EarliestTeamReboundOfTenDeleted ==
    (fbMode = "proc" /\ fbOutcome = "done" /\ TeamReboundsWithin(10) /= {}) =>
        EarliestTeamReboundDeleted(10)

\* C28 (amended): the fallback examines the next nine rows; a team rebound
\* ten or more rows after the reported event is never deleted.
C28_EarliestTeamReboundOfNineDeleted ==
    (fbMode = "proc" /\ fbOutcome = "done") =>
        /\ TeamReboundsWithin(9) /= {} => EarliestTeamReboundDeleted(9)
        /\ TeamReboundsWithin(9) = {} =>
              \A j \in DOMAIN fbRows :
                  (fbRows[j].type = 4 /\ fbRows[j].pid = 0) =>
                      \E k \in DOMAIN fbResult.rows : fbResult.rows[k] = fbRows[j]

\* a team rebound nine rows after the reported row is deleted although a
\* player rebound comes before it
C28_Witness ==
    /\ fbMode = "proc"
    /\ fbOutcome = "done"
    /\ TeamReboundsWithin(9) = { IssueIndexFirst(fbRows, fbEvent) + 9 }
    /\ \E j \in DOMAIN fbRows : fbRows[j].type = 4 /\ fbRows[j].pid = 202
                                  /\ j < IssueIndexFirst(fbRows, fbEvent) + 9
    /\ fbResult.kind = "delTeam"
    /\ Len(fbResult.rows) = Len(fbRows) - 1

(***************************************************************************)
(* Claims about the repair patterns                                        *)
(***************************************************************************)

\* the row the routine takes as the reported one: the loader keeps the last
\* match, the processor the first
ReportedIndex ==
    IF fbMode = "loader" THEN IssueIndexLast(fbRows, fbEvent)
    ELSE IssueIndexFirst(fbRows, fbEvent)

\* rows i-1, i, i+1 are a missed shot, the reported rebound and a rebound
\* with the event numbers of pattern 4 (d = 1) or of pattern 5 (d = -1)
Triplet(i, d) ==
    /\ i - 1 >= 1 /\ i + 1 <= Len(fbRows)
    /\ fbRows[i - 1].type = 2
    /\ fbRows[i].type = 4
    /\ fbRows[i + 1].type = 4
    /\ fbRows[i - 1].num = fbEvent + d
    /\ fbRows[i + 1].num = fbEvent + 2 * d

\* C29: for both (shot, rebound, rebound) triplet patterns the fix leaves
\* the three rows as rebound, shot, rebound in ascending event_num order
\* and changes the position of no other row.
C29_TripletBecomesReboundShotRebound ==
    fbOutcome = "done" =>
        LET i == ReportedIndex
            r == fbResult.rows
        IN  (i /= 0 /\ (Triplet(i, 1) \/ Triplet(i, -1))) =>
                /\ fbResult.err = ""
                /\ Len(r) = Len(fbRows)
                /\ r[i - 1].type = 4 /\ r[i].type = 2 /\ r[i + 1].type = 4
                /\ r[i - 1].num < r[i].num /\ r[i].num < r[i + 1].num
                /\ { r[i - 1], r[i], r[i + 1] }
                     = { fbRows[i - 1], fbRows[i], fbRows[i + 1] }
                /\ \A j \in DOMAIN fbRows :
                      (j < i - 1 \/ j > i + 1) => r[j] = fbRows[j]

\* the second rebound of a triplet of pattern 5 has been moved ahead of the
\* shot while a fourth row stayed where it was
C29_Witness ==
    /\ fbOutcome = "done"
    /\ Len(fbRows) = 4
    /\ ReportedIndex /= 0
    /\ Triplet(ReportedIndex, -1)
    /\ fbResult.rows[ReportedIndex - 1] = fbRows[ReportedIndex + 1]
    /\ fbResult.rows[ReportedIndex + 1] = fbRows[ReportedIndex]

\* row f is a free throw, rows f+1..i are substitutions/timeouts, row i is
\* the reported one and row i+1 is a rebound
FreeThrowSubsRebound(f, i) ==
    /\ 1 <= f /\ f < i /\ i + 1 <= Len(fbRows)
    /\ fbRows[f].type = 3
    /\ \A j \in (f + 1)..i : fbRows[j].type \in {8, 9}
    /\ fbRows[i + 1].type = 4

\* C30: with a free throw F, contiguous Substitution/Timeout rows s1..sk
\* after it, then a Rebound R, and sk reported, the fix produces
\* ..., s1..sk, F, R: F ends right before R, the substitutions/timeouts keep
\* their order ahead of F, no row is added, removed or otherwise moved.
C30_FreeThrowMovedBeforeRebound ==
    fbOutcome = "done" =>
        \A f \in DOMAIN fbRows :
            (ReportedIndex /= 0 /\ FreeThrowSubsRebound(f, ReportedIndex)) =>
                /\ fbResult.err = ""
                /\ fbResult.rows =
                      SubSeq(fbRows, 1, f - 1)
                        \o SubSeq(fbRows, f + 1, ReportedIndex)
                        \o << fbRows[f] >>
                        \o SubSeq(fbRows, ReportedIndex + 1, Len(fbRows))

\* two stoppages stood between the free throw and the rebound
C30_Witness ==
    /\ fbOutcome = "done"
    /\ ReportedIndex = 3
    /\ FreeThrowSubsRebound(1, 3)
    /\ fbResult.rows[3].type = 3
    /\ fbResult.rows[1] = fbRows[2] /\ fbResult.rows[2] = fbRows[3]
    /\ fbResult.rows[4] = fbRows[4]

(***************************************************************************)
(* Claims about the same-clock rebound move of the loader                  *)
(***************************************************************************)

\* the missed shots and free throws among the next five rows after row b
\* that stand at its period and clock
LaterShotsAtSameClock(b) ==
    { j \in (b + 1)..(b + 5) :
        /\ j <= Len(fbRows)
        /\ fbRows[j].per = fbRows[b].per /\ fbRows[j].clk = fbRows[b].clk
        /\ fbRows[j].type \in {2, 3} }

\* C31: when a Rebound that fails the predecessor probe is followed, within
\* the next five rows at the same period and clock, by a missed shot or
\* free throw, order repair moves that rebound to the position right after
\* the shot/free throw and leaves all other rows in their relative order.
C31_FailingReboundMovedAfterShot ==
    (fbMode = "loader" /\ fbOutcome = "done") =>
        LET b == ProbeFails(fbRows)
        IN  (b /= 0 /\ LaterShotsAtSameClock(b) /= {}) =>
                LET t == MinOf(LaterShotsAtSameClock(b))
                IN  fbResult.rows =
                        SubSeq(fbRows, 1, b - 1) \o SubSeq(fbRows, b + 1, t)
                          \o << fbRows[b] >> \o SubSeq(fbRows, t + 1, Len(fbRows))

(***************************************************************************)
(* Claims about _use_stats_nba_v3_event_order                              *)
(***************************************************************************)

\* the oracle knows the EVENTNUM
V3Known(n) == \E k \in DOMAIN v3Oracle : v3Oracle[k] = n

\* the oracle lists a before b
V3RankedBefore(a, b) ==
    \E k \in DOMAIN v3Oracle :
        /\ v3Oracle[k] = a
        /\ \A j \in 1..k : v3Oracle[j] /= b

\* row x may stand before row y
V3InOrder(x, y) ==
    \/ x.num = y.num
    \/ V3Known(x.num) /\ ~V3Known(y.num)
    \/ V3Known(x.num) /\ V3Known(y.num) /\ V3RankedBefore(x.num, y.num)
    \/ ~V3Known(x.num) /\ ~V3Known(y.num) /\ x.num < y.num

\* C32: the output is a permutation of the input rows ordered by the
\* oracle's rank of each EVENTNUM with ties broken by EVENTNUM, rows
\* unknown to the oracle after all ranked rows; with no oracle the rows are
\* left unchanged.
C32_PermutationInOracleOrder ==
    v3Outcome = "done" =>
        /\ Len(v3Out) = Len(v3Rows)
        /\ \A i \in DOMAIN v3Rows :
              Cardinality({ j \in DOMAIN v3Out : v3Out[j] = v3Rows[i] }) = 1
        /\ v3Oracle = <<>> => v3Out = v3Rows
        /\ v3Oracle /= <<>> =>
              \A i, j \in DOMAIN v3Out : i < j => V3InOrder(v3Out[i], v3Out[j])

\* a row unknown to the oracle stood first and ends behind two ranked rows
\* that the oracle lists against their EVENTNUM order
C32_Witness ==
    /\ v3Outcome = "done"
    /\ Len(v3Rows) = 3
    /\ ~V3Known(v3Rows[1].num)
    /\ v3Out[3] = v3Rows[1]
    /\ V3Known(v3Out[1].num) /\ V3Known(v3Out[2].num)
    /\ v3Out[1].num > v3Out[2].num

(***************************************************************************)
(* Claims about the reset of fouls_to_give                                 *)
(***************************************************************************)

\* fouls to give of a period before any foul
FoulsOfPeriod(per) == IF per <= RegulationPeriods THEN 4 ELSE 3

\* the first item of item i's period
FirstOfItsPeriod(i) ==
    MinOf({ j \in 1..i : atItems[j].per = atItems[i].per })

\* what a team without a foul reads on item i when fouls_to_give was reset
\* at item r: the period's amount, 1 once an item was inside the two minutes
FoulsSince(r, i) ==
    IF \E j \in r..i : InTwoMinutes(j) THEN 1
    ELSE FoulsOfPeriod(atItems[r].per)

AttachedNow(j) ==
    [fouls |-> cpHeap[cpAttached[j].fouls],
     pfouls |-> cpHeap[cpAttached[j].pfouls],
     score |-> cpHeap[cpAttached[j].score]]

\* C34: the fouls_to_give, player_game_fouls and score attached to an event
\* are copies: whatever the loop does on later events, the dictionaries of
\* an earlier event read as they did when they were attached, and no two
\* events nor an event and an accumulator share a dictionary.
C34_AttachedValuesAreCopies ==
    /\ \A j \in DOMAIN cpAttached :
          /\ AttachedNow(j) = cpSeen[j]
          /\ cpSeen[j].fouls = AttrsAfter(cpItems, j).fouls
          /\ cpSeen[j].score = AttrsAfter(cpItems, j).score
    /\ \A j, k \in DOMAIN cpAttached :
          j /= k =>
            {cpAttached[j].fouls, cpAttached[j].pfouls, cpAttached[j].score}
              \cap {cpAttached[k].fouls, cpAttached[k].pfouls, cpAttached[k].score,
                    cpAcc.fouls, cpAcc.pfouls, cpAcc.score} = {}

\* both teams had a key in the fouls_to_give attached to the second event
\* when a foul inside the two minutes wrote into the accumulators: the
\* third event reads other fouls to give and other player fouls
C34_Witness ==
    /\ cpOutcome = "done"
    /\ Len(cpItems) = 3
    /\ Cardinality(cpSeen[2].fouls.keys) = 2
    /\ cpItems[3].type = 6 /\ cpItems[3].sec <= TwoMinutes
    /\ cpItems[2].sec > TwoMinutes
    /\ cpSeen[2].fouls /= cpSeen[3].fouls
    /\ cpSeen[2].pfouls /= cpSeen[3].pfouls
    /\ cpAcc.fouls < cpAttached[2].fouls

(***************************************************************************)
(* Claims about the priority of the start type rules                       *)
(***************************************************************************)

\* the events of the previous possession that are no Substitution
StartNonSubs == { i \in DOMAIN stPrevEvents : stPrevEvents[i].cls /= "Substitution" }

\* the start type the listed rules derive from event e
StartTypeDerived(e) ==
    CASE e.cls \in {"FieldGoal", "FreeThrow"} /\ e.is_made
              -> OffShot(e.shot_type, "Make")
      [] e.cls = "Turnover" /\ e.is_steal -> OFF_LIVE_BALL_TURNOVER_STRING
      [] e.cls = "Turnover" /\ ~e.is_steal -> OFF_DEADBALL_STRING
      [] e.cls = "Rebound" /\ e.player1_id = 0 -> OFF_DEADBALL_STRING
      [] e.cls = "Rebound" /\ e.player1_id /= 0 /\ e.is_blocked
              -> OffShot(e.shot_type, "Block")
      [] e.cls = "Rebound" /\ e.player1_id /= 0 /\ ~e.is_blocked
              -> OffShot(e.shot_type, "Miss")

\* the events the listed rules speak about
StartTypeListed(e) ==
    \/ e.cls \in {"FieldGoal", "FreeThrow"} /\ e.is_made
    \/ e.cls \in {"Turnover", "Rebound"}

BoxWithPosition(t) ==
    { i \in DOMAIN bxPlayers :
        /\ bxPlayers[i].team_id = t
        /\ bxPlayers[i].start_position \notin {"", " "} }

\* C36: the call returns a starters mapping only for period 1 and only when
\* each of the two teams of the game has exactly five players with a
\* START_POSITION; in every other case it returns None.
C36_StartersOnlyWithFivePerTeam ==
    bxOutcome = "done" =>
        (~bxResult.none =>
            /\ bxPeriod = 1
            /\ \A t \in Teams : Cardinality(BoxWithPosition(t)) = 5)

(***************************************************************************)
(* Claims about what one call of an order repair does to the row list      *)
(***************************************************************************)

\* the rows after the call are the rows before it in another order
RepairPermutes ==
    /\ Len(fbResult.rows) = Len(fbRows)
    /\ \A i \in DOMAIN fbRows :
          Cardinality({ j \in DOMAIN fbResult.rows : fbResult.rows[j] = fbRows[i] }) =
          Cardinality({ j \in DOMAIN fbRows : fbRows[j] = fbRows[i] })

\* the rows after the call are the rows before it without the row at i
RepairRemoves(i) == fbResult.rows = RemoveAt(fbRows, i)

\* C37: one call of an order repair either permutes the rows or removes
\* exactly one row, and a removed row is a Rebound (EVENTMSGTYPE 4): no
\* other row is deleted and no row is duplicated.
C37_PermutesOrRemovesOneRebound ==
    fbOutcome = "done" =>
        \/ RepairPermutes
        \/ \E i \in DOMAIN fbRows : fbRows[i].type = 4 /\ RepairRemoves(i)

(***************************************************************************)
(* Claims about the rows the technical foul reorder keeps                  *)
(***************************************************************************)

\* position of the row of tfRows at index i in the rows after the call (0: gone)
TechPlaces(i) == { j \in DOMAIN tfOut : tfOut[j] = tfRows[i] }

\* C38: the call only permutes the rows: every row is in the list after it
\* exactly once, whatever the period numbers and however many StartOfPeriod
\* rows a period has, and the rows of a period other than its StartOfPeriod
\* keep their relative order.
C38_TechnicalFoulFixOnlyPermutes ==
    tfOutcome \in {"reordered", "unchanged"} =>
        /\ Len(tfOut) = Len(tfRows)
        /\ \A i \in DOMAIN tfRows : Cardinality(TechPlaces(i)) = 1
        /\ \A i, j \in DOMAIN tfRows :
              ( /\ i < j
                /\ tfRows[i].per = tfRows[j].per
                /\ tfRows[i].type /= 12 /\ tfRows[j].type /= 12
                /\ TechPlaces(i) /= {} /\ TechPlaces(j) /= {} ) =>
                    MinOf(TechPlaces(i)) < MinOf(TechPlaces(j))

(***************************************************************************)
(* Claims about the trip position of a normalized free throw               *)
(***************************************************************************)

\* C39: a free throw of the feed whose subType is one of the trip labels
\* 1of1, 1of2, 2of2, 1of3, 2of3, 3of3 gets an EVENTMSGACTIONTYPE that
\* StatsFreeThrow classifies as that same trip position and as no other.
C39_TripLabelKeepsItsPosition ==
    (tpOutcome = "done" /\ canon(tpAction.sub) \in TripPositions) =>
        tpClasses = { canon(tpAction.sub) }

(***************************************************************************)
(* Claims about the period of the events of a possession                   *)
(***************************************************************************)

\* Possession.period: the period of the first event
PossessionPeriod(poss) == psEvents[poss[1]].per

\* C40: all events of a possession belong to the same period: the period
\* of the possession, taken from its first event, is the period of every
\* event in it.
C40_PossessionWithinOnePeriod ==
    psOutcome = "done" =>
        \A k \in DOMAIN psPoss : \A m \in DOMAIN psPoss[k] :
            psEvents[psPoss[k][m]].per = PossessionPeriod(psPoss[k])

====
